---- MODULE Spec2Model ----
(***************************************************************************)
(* A model of the sukker linear-algebra library: the dense matrix (a flat  *)
(* row-major buffer with nrows/ncols), the sparse matrix (a coordinate map *)
(* with nrows/ncols), the dense multiplication dispatcher with its kernels *)
(* and block-size selector, the determinant engine, and the sparse         *)
(* arithmetic and multiplication helpers.                                  *)
(*                                                                         *)
(* Element type: the integer instantiations (i8..i128).  Values stay small *)
(* in every specification below, so no operation reaches the width of the  *)
(* type and elements are modelled as Int.  Reductions that the code runs   *)
(* with rayon (par_iter().sum()) are sums of integers, whose result does   *)
(* not depend on the order of reduction.                                   *)
(*                                                                         *)
(* A Rust panic (unwrap on None, index out of bounds, step_by(0), integer  *)
(* division by zero) aborts the call: it is modelled as the outcome        *)
(* "Panic".                                                                *)
(***************************************************************************)
EXTENDS Integers, Sequences, FiniteSets, TLC

VARIABLES
    phase,      \* which call has been made last ("init" before any call)
    mat,        \* dense: self (the left operand, or the matrix mutated in place)
    other,      \* dense: the right operand of a binary dense call
    out,        \* dense: outcome of the last dense call that returns a value
    sp,         \* sparse: self
    spOther,    \* sparse: the right operand of a binary sparse call
    spOut,      \* sparse: outcome of the last sparse call that returns a value
    shapeA,     \* block-size selection: shape of self
    shapeB,     \* block-size selection: shape of other
    blockSize,  \* block-size selection: outcome of get_block_size
    scalar,     \* the scalar argument of the last scalar broadcast call
    getIdx,     \* the (i, j) argument of the last get call
    slices,     \* the (rows, cols, vals, shape) arguments of the last from_slices call
    rnd,        \* the (start, end, sparsity) arguments of the running randomize_range call
    done,       \* kernel run: the block iterations executed so far
    writes      \* kernel run: for each element of the output buffer, the writes made to it

vars ==
    <<phase, mat, other, out, sp, spOther, spOut, shapeA, shapeB, blockSize, scalar, getIdx,
      slices, rnd,
      done, writes>>

----------------------------------------------------------------------------
(* Bounds of the model *)

\* operand buffers are SampleData(seed, n) for seed in 0..MaxSeed
MaxSeed == 1

\* a sparse operand stores at most MaxNnz entries
MaxNnz == 2

----------------------------------------------------------------------------
(* Common helpers *)

Min(a, b) == IF a < b THEN a ELSE b

\* Rust's (lo..hi).step_by(step), as the increasing sequence of its items
RECURSIVE StepBy(_, _, _)
StepBy(lo, hi, step) ==
    IF lo >= hi THEN <<>> ELSE <<lo>> \o StepBy(lo + step, hi, step)

\* macro at!(row, col, ncols): the flat index of a cell
at(row, col, ncols) == row * ncols + col

\* Input buffers: a fixed pseudo-random sequence of n elements of -2..2 per seed
SampleValue(seed, idx) ==
    (((((idx + 3) * (idx + 5 + 2 * seed) * 37 + seed * 101) % 30269) \div 7) % 5) - 2

SampleData(seed, n) == [idx \in 1..n |-> SampleValue(seed, idx)]

----------------------------------------------------------------------------
(* Dense matrix: struct Matrix { data, nrows, ncols } *)

Matrix(data, nrows, ncols) == [data |-> data, nrows |-> nrows, ncols |-> ncols]

NoMatrix == Matrix(<<>>, 0, 0)

\* Outcomes of a dense call: Ok(matrix), Err(kind), Some(value), None, or a panic
Ok(m) == [tag |-> "Ok", kind |-> "", mat |-> m, val |-> 0]
Err(kind) == [tag |-> "Err", kind |-> kind, mat |-> NoMatrix, val |-> 0]
Some(v) == [tag |-> "Some", kind |-> "", mat |-> NoMatrix, val |-> v]
None == [tag |-> "None", kind |-> "", mat |-> NoMatrix, val |-> 0]
Panic == [tag |-> "Panic", kind |-> "", mat |-> NoMatrix, val |-> 0]
NoCall == [tag |-> "NoCall", kind |-> "", mat |-> NoMatrix, val |-> 0]

\* Matrix::shape
shape(m) == <<m.nrows, m.ncols>>

\* Matrix::size
size(m) == m.nrows * m.ncols

\* Matrix::new: fails with MatrixCreationError when the shape does not fit the buffer
new(data, shp) ==
    IF shp[1] * shp[2] # Len(data)
    THEN Err("MatrixCreationError")
    ELSE Ok(Matrix(data, shp[1], shp[2]))

\* Matrix::from_shape: vec![value; rows * cols], then new(..).unwrap()
from_shape(value, shp) == new([idx \in 1..(shp[1] * shp[2]) |-> value], shp).mat

\* Matrix::init
init(value, shp) == from_shape(value, shp)

\* Matrix::zeros
zeros(shp) == from_shape(0, shp)

\* Matrix::ones
ones(shp) == from_shape(1, shp)

\* Matrix::eye: zeros with data[i * size + i] = 1
eye(sz) ==
    Matrix([idx \in 1..(sz * sz) |-> IF (idx - 1) \div sz = (idx - 1) % sz THEN 1 ELSE 0],
           sz, sz)

\* Matrix::at: self.data[at!(i, j, self.ncols)] (0-based in the code, 1-based here)
At(m, i, j) == m.data[at(i, j, m.ncols) + 1]

\* Vec::swap
SwapData(data, lhs, rhs) ==
    [data EXCEPT ![lhs + 1] = data[rhs + 1], ![rhs + 1] = data[lhs + 1]]

\* transpose's inner loop for row i, up to column j: for each column c in i+1..j
\* the elements at!(i, c, ncols) and at!(c, i, nrows) are swapped
RECURSIVE TransposeRow(_, _, _, _, _)
TransposeRow(data, i, j, nrows, ncols) ==
    IF j <= i THEN data
    ELSE SwapData(TransposeRow(data, i, j - 1, nrows, ncols),
                  at(i, j, ncols), at(j, i, nrows))

\* transpose's outer loop, up to row i
RECURSIVE TransposeRows(_, _, _, _)
TransposeRows(data, i, nrows, ncols) ==
    IF i < 0 THEN data
    ELSE LET prev == TransposeRows(data, i - 1, nrows, ncols)
         IN  IF Len(prev) = 0 THEN prev
             ELSE TransposeRow(prev, i, ncols - 1, nrows, ncols)

\* Matrix::transpose: swaps data[i*ncols+j] with data[j*nrows+i] for every row i
\* and every column j > i, then swaps nrows and ncols
transpose(m) ==
    Matrix(TransposeRows(m.data, m.nrows - 1, m.nrows, m.ncols), m.ncols, m.nrows)

\* Matrix::transpose_copy
transpose_copy(m) == transpose(m)

----------------------------------------------------------------------------
(* Block-size selector (matrix/helper.rs) *)

\* get_range_for_block_size: the inclusive range <<lo, hi>> of candidate block sizes
get_range_for_block_size(self, oth) ==
    IF (self.nrows < 30 /\ self.ncols < 30) \/ (oth.nrows < 30 /\ oth.ncols < 30)
    THEN <<2, 10>>
    ELSE IF (self.nrows < 100 /\ self.ncols < 100) \/ (oth.nrows < 100 /\ oth.ncols < 100)
    THEN <<10, 30>>
    ELSE <<30, 50>>

\* the predicate handed to find_last
BlockDivides(self, oth, b) ==
    self.ncols % b = 0 \/ self.nrows % b = 0 \/ oth.ncols % b = 0

\* a faulty search, find_first in place of find_last: the smallest candidate that
\* satisfies the predicate (C8 must not hold of it)
FindFirst(self, oth, range) ==
    LET hits == {b \in range[1]..range[2] : BlockDivides(self, oth, b)}
    IN  IF hits = {} THEN None
        ELSE Some(CHOOSE b \in hits : \A c \in hits : b <= c)

\* find_last over the range: the last (largest) candidate that satisfies the predicate
FindLast(self, oth, range) ==
    LET hits == {b \in range[1]..range[2] : BlockDivides(self, oth, b)}
    IN  IF hits = {} THEN None
        ELSE Some(CHOOSE b \in hits : \A c \in hits : c <= b)

\* get_block_size: find_last(..).unwrap(), which panics when no candidate divides
get_block_size(self, oth) ==
    LET found == FindLast(self, oth, get_range_for_block_size(self, oth))
    IN  IF found.tag = "None" THEN Panic ELSE found

----------------------------------------------------------------------------
(* Dense multiplication kernels (matrix/helper.rs) *)

\* (lo..hi).map(|k| self.at(i, k) * other.at(k, j)).sum()
RECURSIVE DotRange(_, _, _, _, _, _)
DotRange(self, oth, i, j, lo, hi) ==
    IF lo >= hi THEN 0
    ELSE At(self, i, lo) * At(oth, lo, j) + DotRange(self, oth, i, j, lo + 1, hi)

\* (lo..hi).map(|k| self.at(i, k) * t_other.at(j, k)).sum()
RECURSIVE DotRangeT(_, _, _, _, _, _)
DotRangeT(self, t_other, i, j, lo, hi) ==
    IF lo >= hi THEN 0
    ELSE At(self, i, lo) * At(t_other, j, lo) + DotRangeT(self, t_other, i, j, lo + 1, hi)

Zeros(n) == [idx \in 1..n |-> 0]

\* onetwo_by_twoone: 1x2 @ 2x1
onetwo_by_twoone(self, oth) ==
    LET a == At(self, 0, 0) * At(oth, 0, 0) + At(self, 0, 1) * At(oth, 1, 0)
    IN  new(<<a>>, <<1, 1>>).mat

\* twotwo_by_twoone: 2x2 @ 2x1
twotwo_by_twoone(self, oth) ==
    LET a == At(self, 0, 0) * At(oth, 0, 0) + At(self, 0, 1) * At(oth, 1, 0)
        b == At(self, 1, 0) * At(oth, 0, 0) + At(self, 1, 1) * At(oth, 1, 0)
    IN  new(<<a, b>>, <<2, 1>>).mat

\* onetwo_by_twotwo: 1x2 @ 2x2
onetwo_by_twotwo(self, oth) ==
    LET a == At(self, 0, 0) * At(oth, 0, 0) + At(self, 0, 1) * At(oth, 1, 0)
        b == At(self, 0, 0) * At(oth, 1, 0) + At(self, 0, 1) * At(oth, 1, 1)
    IN  new(<<a, b>>, <<1, 2>>).mat

\* twotwo_by_twotwo: 2x2 @ 2x2
twotwo_by_twotwo(self, oth) ==
    LET a == At(self, 0, 0) * At(oth, 0, 0) + At(self, 1, 0) * At(oth, 1, 0)
        b == At(self, 0, 0) * At(oth, 0, 1) + At(self, 0, 1) * At(oth, 1, 1)
        c == At(self, 1, 0) * At(oth, 0, 0) + At(self, 1, 1) * At(oth, 1, 0)
        d == At(self, 1, 0) * At(oth, 1, 0) + At(self, 1, 1) * At(oth, 1, 1)
    IN  new(<<a, b, c, d>>, <<2, 2>>).mat

\* the (kk, jj, ii) block iterations of optimized_blocked_matmul, in loop order
GeneralBlocks(self, oth, block_size) ==
    LET kks == StepBy(0, self.ncols, block_size)
        jjs == StepBy(0, oth.ncols, block_size)
        iis == StepBy(0, self.nrows, block_size)
        nk == Len(kks)
        nj == Len(jjs)
        ni == Len(iis)
    IN  [n \in 1..(nk * nj * ni) |->
            <<kks[((n - 1) \div (nj * ni)) + 1],
              jjs[(((n - 1) \div ni) % nj) + 1],
              iis[((n - 1) % ni) + 1]>>]

\* the block iteration blk = (kk, jj, ii) writes cell (i, j): i in ii..block_end_i
\* and j in jj..block_end_j
GeneralBlockWrites(blk, i, j, M, P, block_size) ==
    LET block_end_i == Min(blk[3] + block_size, M)
        block_end_j == Min(blk[2] + block_size, P)
    IN  i >= blk[3] /\ i < block_end_i /\ j >= blk[2] /\ j < block_end_j

\* an accumulating kernel (the `+=` left in the comment of the source): after the
\* pass kk the cell holds the sum over every k below block_end_k
GeneralBlockValueAccumulated(self, oth, blk, i, j, block_size) ==
    LET block_end_k == Min(blk[1] + block_size, self.ncols)
    IN  DotRange(self, oth, i, j, 0, block_end_k)

\* the value the block iteration blk = (kk, jj, ii) assigns to cell (i, j): the sum
\* over k in kk..block_end_k (an assignment, not an addition to the cell)
GeneralBlockValue(self, oth, blk, i, j, block_size) ==
    LET block_end_k == Min(blk[1] + block_size, self.ncols)
    IN  DotRange(self, oth, i, j, blk[1], block_end_k)

\* optimized_blocked_matmul: the general M x N @ N x P blocked kernel.  The buffer
\* starts as zeros and the block iterations run in loop order, so a cell ends with
\* the value assigned by the last block iteration that writes it.
optimized_blocked_matmul(self, oth, block_size) ==
    LET M == self.nrows
        P == oth.ncols
        blocks == GeneralBlocks(self, oth, block_size)
        Last(S) == CHOOSE c \in S : \A d \in S : d <= c
        data == [idx \in 1..(M * P) |->
                    LET i == (idx - 1) \div P
                        j == (idx - 1) % P
                        writers == {n \in 1..Len(blocks) :
                                        GeneralBlockWrites(blocks[n], i, j, M, P, block_size)}
                    IN  IF writers = {} THEN 0
                        ELSE GeneralBlockValue(self, oth, blocks[Last(writers)], i, j,
                                               block_size)]
    IN  new(data, <<M, P>>)

\* naive: every cell is the full dot product over k in 0..N
naive(self, oth) ==
    LET M == self.nrows
        N == self.ncols
        P == oth.ncols
        data == [idx \in 1..(M * P) |->
                    DotRange(self, oth, (idx - 1) \div P, (idx - 1) % P, 0, N)]
    IN  new(data, <<M, P>>)

\* the cells (i, j) written by one (kk, jj) iteration of blocked_matmul, in loop
\* order: every row i in 0..n, every column j in jj..jj+block_size
TransposedCells(n, jj, block_size) ==
    [c \in 1..(n * block_size) |->
        <<(c - 1) \div block_size, jj + ((c - 1) % block_size)>>]

\* an index of one (kk, jj) iteration falls outside the buffer it is used on
TransposedBlockPanics(self, t_other, kk, jj, block_size) ==
    LET n == self.nrows
    IN  \E i \in 0..(n - 1), j \in jj..(jj + block_size - 1) :
            \/ at(i, j, n) >= n * n
            \/ \E k \in kk..(kk + block_size - 1) :
                    \/ at(i, k, self.ncols) >= Len(self.data)
                    \/ at(j, k, t_other.ncols) >= Len(t_other.data)

\* One (kk, jj) iteration of blocked_matmul: the cells are written in loop order,
\*   data[at!(i, j, n)] = sum over k in kk..kk+block_size of self.at(i,k) * t_other.at(j,k),
\* so an element of the buffer ends with the value of the last write that hit it
TransposedBlock(data, self, t_other, kk, jj, block_size) ==
    LET n == self.nrows
        cells == TransposedCells(n, jj, block_size)
        Writers(idx) == {c \in 1..Len(cells) : at(cells[c][1], cells[c][2], n) + 1 = idx}
        Last(S) == CHOOSE c \in S : \A d \in S : d <= c
    IN  [idx \in 1..Len(data) |->
            IF Writers(idx) = {} THEN data[idx]
            ELSE LET c == Last(Writers(idx))
                 IN  DotRangeT(self, t_other, cells[c][1], cells[c][2], kk, kk + block_size)]

\* the (kk, jj) iterations of blocked_matmul, in loop order: both loops step by en
TransposedBlocks(n, en) ==
    LET kks == StepBy(0, n, en)
        nk == Len(kks)
    IN  [c \in 1..(nk * nk) |-> <<kks[((c - 1) \div nk) + 1], kks[((c - 1) % nk) + 1]>>]

RECURSIVE RunTransposedBlocks(_, _, _, _, _)
RunTransposedBlocks(data, blocks, self, t_other, block_size) ==
    IF blocks = <<>> THEN data
    ELSE RunTransposedBlocks(
            TransposedBlock(data, self, t_other, Head(blocks)[1], Head(blocks)[2], block_size),
            Tail(blocks), self, t_other, block_size)

\* blocked_matmul: the transposed blocked kernel for N x N operands; step_by(en)
\* panics when en = 0, and an index past the end of a buffer panics
blocked_matmul(self, oth, block_size) ==
    LET n == self.nrows
        en == block_size * (n \div block_size)
        t_other == transpose_copy(oth)
        blocks == TransposedBlocks(n, en)
    IN  IF en = 0 THEN Panic
        ELSE IF \E c \in 1..Len(blocks) :
                    TransposedBlockPanics(self, t_other, blocks[c][1], blocks[c][2],
                                          block_size)
        THEN Panic
        ELSE new(RunTransposedBlocks(Zeros(n * n), blocks, self, t_other, block_size),
                 <<n, n>>)

\* matmul_helper: the dispatcher
matmul_helper(self, oth) ==
    LET shapes == <<shape(self), shape(oth)>>
        blck_size == get_block_size(self, oth)
    IN  IF shapes = <<<<1, 2>>, <<2, 1>>>> THEN Ok(onetwo_by_twoone(self, oth))
        ELSE IF shapes = <<<<2, 2>>, <<2, 1>>>> THEN Ok(twotwo_by_twoone(self, oth))
        ELSE IF shapes = <<<<1, 2>>, <<2, 2>>>> THEN Ok(onetwo_by_twotwo(self, oth))
        ELSE IF shapes = <<<<2, 2>>, <<2, 2>>>> THEN Ok(twotwo_by_twotwo(self, oth))
        ELSE IF blck_size.tag = "Panic" THEN Panic
        ELSE IF shape(self) = shape(oth) THEN blocked_matmul(self, oth, blck_size.val)
        ELSE optimized_blocked_matmul(self, oth, blck_size.val)

\* Matrix::matmul
matmul(self, oth) ==
    IF self.ncols # oth.nrows
    THEN Err("MatrixDimensionMismatchError")
    ELSE matmul_helper(self, oth)

----------------------------------------------------------------------------
(* Dense mutators (matrix/mod.rs). Each returns Ok(matrix after the call), or Panic
   when the call indexes the buffer out of bounds or divides an integer by zero. *)

\* Rust integer division truncates toward zero
TruncDiv(a, b) ==
    IF (a >= 0) = (b >= 0)
    THEN (IF a >= 0 THEN a ELSE -a) \div (IF b >= 0 THEN b ELSE -b)
    ELSE -((IF a >= 0 THEN a ELSE -a) \div (IF b >= 0 THEN b ELSE -b))

\* Matrix::reshape: keeps the old dimensions unless the new ones have the same size
reshape(self, nrows, ncols) ==
    IF nrows * ncols # size(self) THEN Ok(self)
    ELSE Ok([self EXCEPT !.nrows = nrows, !.ncols = ncols])

\* Matrix::set: skips a flat index >= size(); self.data[idx] panics past the buffer
set(self, value, idx) ==
    LET flat == at(idx[1], idx[2], self.ncols)
    IN  IF flat >= size(self) THEN Ok(self)
        ELSE IF flat >= Len(self.data) THEN Panic
        ELSE Ok([self EXCEPT !.data[flat + 1] = value])

\* Matrix::set_many: set for every index of the list, in order
RECURSIVE set_many(_, _, _)
set_many(self, idx_list, value) ==
    IF idx_list = <<>> THEN Ok(self)
    ELSE LET first == set(self, value, Head(idx_list))
         IN  IF first.tag = "Panic" THEN Panic
             ELSE set_many(first.mat, Tail(idx_list), value)

\* Matrix::extend. Row: the other buffer is appended and nrows grows. Col: new_data
\* is built and dropped, self.data stays, only ncols grows; step_by(0) panics.
extend(self, oth, dim) ==
    IF dim = "Row"
    THEN IF self.ncols # oth.ncols THEN Ok(self)
         ELSE Ok([self EXCEPT !.data = self.data \o oth.data,
                              !.nrows = self.nrows + oth.nrows])
    ELSE IF self.nrows # oth.nrows THEN Ok(self)
         ELSE IF self.ncols = 0 THEN Panic
         ELSE Ok([self EXCEPT !.ncols = self.ncols + oth.ncols])

\* self.data.par_iter_mut().zip(&other.data): the first min(len, len) elements
ZipLen(self, oth) == Min(Len(self.data), Len(oth.data))

\* Matrix::add_self
add_self(self, oth) ==
    Ok([self EXCEPT !.data = [k \in 1..Len(self.data) |->
            IF k <= ZipLen(self, oth) THEN self.data[k] + oth.data[k] ELSE self.data[k]]])

\* Matrix::sub_self
sub_self(self, oth) ==
    Ok([self EXCEPT !.data = [k \in 1..Len(self.data) |->
            IF k <= ZipLen(self, oth) THEN self.data[k] - oth.data[k] ELSE self.data[k]]])

\* Matrix::mul_self
mul_self(self, oth) ==
    Ok([self EXCEPT !.data = [k \in 1..Len(self.data) |->
            IF k <= ZipLen(self, oth) THEN self.data[k] * oth.data[k] ELSE self.data[k]]])

\* Matrix::div_self
div_self(self, oth) ==
    IF \E k \in 1..ZipLen(self, oth) : oth.data[k] = 0 THEN Panic
    ELSE Ok([self EXCEPT !.data = [k \in 1..Len(self.data) |->
            IF k <= ZipLen(self, oth) THEN TruncDiv(self.data[k], oth.data[k])
            ELSE self.data[k]]])

\* Matrix::add_val_self
add_val_self(self, val) ==
    Ok([self EXCEPT !.data = [k \in 1..Len(self.data) |-> self.data[k] + val]])

\* Matrix::sub_val_self
sub_val_self(self, val) ==
    Ok([self EXCEPT !.data = [k \in 1..Len(self.data) |-> self.data[k] - val]])

\* Matrix::mul_val_self
mul_val_self(self, val) ==
    Ok([self EXCEPT !.data = [k \in 1..Len(self.data) |-> self.data[k] * val]])

\* Matrix::div_val_self
div_val_self(self, val) ==
    IF val = 0 /\ Len(self.data) > 0 THEN Panic
    ELSE Ok([self EXCEPT !.data = [k \in 1..Len(self.data) |-> TruncDiv(self.data[k], val)]])

\* Matrix::transpose as a call: self.data.swap panics on an index past the buffer
TransposePanics(self) ==
    \E i \in 0..(self.nrows - 1), j \in 0..(self.ncols - 1) :
        /\ j > i
        /\ \/ at(i, j, self.ncols) >= Len(self.data)
           \/ at(j, i, self.nrows) >= Len(self.data)

transpose_self(self) == IF TransposePanics(self) THEN Panic ELSE Ok(transpose(self))

\* Matrix::from_slice: Matrix::new(arr.to_owned(), shape)
from_slice(arr, shp) == new(arr, shp)

----------------------------------------------------------------------------
(* Determinant (matrix/helper.rs, Matrix::determinant) *)

\* det_2x2
det_2x2(self) == At(self, 0, 0) * At(self, 1, 1) - At(self, 0, 1) * At(self, 1, 0)

\* det_3x3
det_3x3(self) ==
    LET a == At(self, 0, 0)
        b == At(self, 0, 1)
        c == At(self, 0, 2)
        d == At(self, 1, 0)
        e == At(self, 1, 1)
        f == At(self, 1, 2)
        g == At(self, 2, 0)
        h == At(self, 2, 1)
        i == At(self, 2, 2)
    IN  a * (e * i - f * h) - b * (d * i - f * g) + c * (d * h - e * g)

\* submatrix: the elements of the flat buffer whose row (i / n) and column (i % n)
\* are both kept, in buffer order
submatrix(matrix, n, row_to_remove, col_to_remove) ==
    LET keep == {i \in 0..(Len(matrix) - 1) :
                    (i \div n) # row_to_remove /\ (i % n) # col_to_remove}
        Nth(k) == CHOOSE i \in keep : Cardinality({x \in keep : x < i}) = k - 1
    IN  [k \in 1..Cardinality(keep) |-> matrix[Nth(k) + 1]]

\* a faulty expansion, det_nxn without `sign *= -T::one()`: every term is added
\* (C7 must not hold of it)
RECURSIVE det_nxn_unsigned(_, _)
det_nxn_unsigned(matrix, n) ==
    IF n = 1 THEN matrix[1]
    ELSE LET loop[col \in 0..n] ==
                IF col = 0 THEN 0
                ELSE loop[col - 1] + matrix[col]
                        * det_nxn_unsigned(submatrix(matrix, n, 0, col - 1), n - 1)
         IN  loop[n]

\* det_nxn: loop[col] is <<det, sign>> after the iterations 0..col of the for loop
RECURSIVE det_nxn(_, _)
det_nxn(matrix, n) ==
    IF n = 1 THEN matrix[1]
    ELSE LET loop[col \in 0..n] ==
                IF col = 0 THEN <<0, 1>>
                ELSE LET prev == loop[col - 1]
                         det == prev[1]
                         sign == prev[2]
                         sub_det == det_nxn(submatrix(matrix, n, 0, col - 1), n - 1)
                     IN  <<det + sign * matrix[col] * sub_det, sign * (-1)>>
         IN  loop[n][1]

\* determinant_helper
determinant_helper(self) ==
    IF self.nrows = 1 THEN At(self, 0, 0)
    ELSE IF self.nrows = 2 THEN det_2x2(self)
    ELSE IF self.nrows = 3 THEN det_3x3(self)
    ELSE det_nxn(self.data, self.nrows)

\* Matrix::determinant
determinant(self) ==
    IF self.nrows # self.ncols THEN None
    ELSE Some(determinant_helper(self))

----------------------------------------------------------------------------
(* Sparse matrix: struct SparseMatrix { data: HashMap<(row, col), T>, nrows, ncols } *)

SparseMatrix(data, nrows, ncols) == [data |-> data, nrows |-> nrows, ncols |-> ncols]

\* HashMap::new
EmptyMap == [c \in {} |-> 0]

\* HashMap::insert / entry().and_modify().or_insert()
MapInsert(data, idx, value) ==
    [c \in (DOMAIN data) \cup {idx} |-> IF c = idx THEN value ELSE data[c]]

\* SparseMatrix::new: takes the map and the shape as they are
sparse_new(data, shp) == SparseMatrix(data, shp[1], shp[2])

\* SparseMatrix::init: an empty matrix of the given shape
sparse_init(nrows, ncols) == SparseMatrix(EmptyMap, nrows, ncols)

\* SparseMatrix::at: the stored value, or zero when the coordinate is absent
sparse_at(s, i, j) == IF <<i, j>> \in DOMAIN s.data THEN s.data[<<i, j>>] ELSE 0

\* Matrix::from_sparse: zeros of the sparse shape, then mat.set(val, idx) for every
\* entry of the map (the map's iteration order is arbitrary)
RECURSIVE FromSparseEntries(_, _, _)
FromSparseEntries(m, sparse, todo) ==
    IF todo = {} THEN m
    ELSE LET idx == CHOOSE c \in todo : TRUE
             next == set(m, sparse.data[idx], idx)
         IN  FromSparseEntries(next.mat, sparse, todo \ {idx})

from_sparse(sparse) == FromSparseEntries(zeros(shape(sparse)), sparse, DOMAIN sparse.data)

\* a set without the zero test: the value is stored whatever it is
sparse_set_any(s, value, idx) ==
    IF at(idx[1], idx[2], s.ncols) >= size(s) THEN s
    ELSE [s EXCEPT !.data = MapInsert(s.data, idx, value)]

\* SparseMatrix::set: refuses a zero value and a flat index outside the size
sparse_set(s, value, idx) ==
    IF value = 0 THEN s
    ELSE IF at(idx[1], idx[2], s.ncols) >= size(s) THEN s
    ELSE [s EXCEPT !.data = MapInsert(s.data, idx, value)]

\* (0..z).map(|k| self.at(i, j) * other.at(j, k)).sum()
\* the sum of a matrix product instead: self.at(i, k) * other.at(k, j) over lo..hi
RECURSIVE SparseProductSum(_, _, _, _, _, _)
SparseProductSum(self, oth, i, j, lo, hi) ==
    IF lo >= hi THEN 0
    ELSE sparse_at(self, i, lo) * sparse_at(oth, lo, j)
            + SparseProductSum(self, oth, i, j, lo + 1, hi)

RECURSIVE SparseRowSum(_, _, _, _, _, _)
SparseRowSum(self, oth, i, j, lo, hi) ==
    IF lo >= hi THEN 0
    ELSE sparse_at(self, i, j) * sparse_at(oth, j, lo)
            + SparseRowSum(self, oth, i, j, lo + 1, hi)

\* the filter_map of both sparse kernels: the coordinates (i, j) of rows x cols at
\* which self is non-zero, each with the sum over k in 0..z
SparseKernelData(self, oth, rows, cols, z) ==
    LET kept == {c \in (0..(rows - 1)) \X (0..(cols - 1)) : sparse_at(self, c[1], c[2]) # 0}
    IN  [c \in kept |-> SparseRowSum(self, oth, c[1], c[2], 0, z)]

\* matmul_sparse_nn: the kernel for operands of equal shape
matmul_sparse_nn(self, oth) ==
    LET N == self.nrows
    IN  sparse_new(SparseKernelData(self, oth, N, N, N), <<N, N>>)

\* matmul_sparse_mnnp: the kernel for M x N @ N x P
matmul_sparse_mnnp(self, oth) ==
    LET x == self.nrows
        y == self.ncols
        z == oth.ncols
    IN  sparse_new(SparseKernelData(self, oth, x, y, z), <<x, z>>)

\* SparseMatrix::matmul_sparse
matmul_sparse(self, oth) ==
    IF self.ncols # oth.nrows
    THEN Err("MatrixMultiplicationDimensionMismatchError")
    ELSE IF shape(self) = shape(oth) THEN Ok(matmul_sparse_nn(self, oth))
    ELSE Ok(matmul_sparse_mnnp(self, oth))

----------------------------------------------------------------------------
(* Sparse factories and mutators (sparse/mod.rs, sparse/helper.rs). Each mutator
   returns Ok(matrix after the call), or Panic on an integer division by zero. *)

\* the coordinates of a shape
Cells(nrows, ncols) == (0..(nrows - 1)) \X (0..(ncols - 1))

\* SparseMatrix::eye: (i, i) -> 1 for i in 0..size
sparse_eye(sz) ==
    sparse_new([c \in {<<i, i>> : i \in 0..(sz - 1)} |-> 1], <<sz, sz>>)

\* Matrix::get: None for a flat index >= size(); self.at panics past the buffer
get(self, i, j) ==
    IF at(i, j, self.ncols) >= size(self) THEN None
    ELSE IF at(i, j, self.ncols) >= Len(self.data) THEN Panic
    ELSE Some(At(self, i, j))

\* SparseMatrix::from_dense: the non-zero cells of the dense matrix;
\* matrix.get(i, j).unwrap() panics on None
from_dense(matrix) ==
    IF \E c \in Cells(matrix.nrows, matrix.ncols) : get(matrix, c[1], c[2]).tag # "Some"
    THEN Panic
    ELSE Ok(sparse_new([c \in {d \in Cells(matrix.nrows, matrix.ncols) :
                                    get(matrix, d[1], d[2]).val # 0}
                            |-> get(matrix, c[1], c[2]).val],
                       shape(matrix)))

\* SparseMatrix::insert
sparse_insert(s, i, j, value) == sparse_set(s, value, <<i, j>>)

\* SparseMatrix::transpose: every (i, j) -> val becomes (j, i) -> val
sparse_transpose(s) ==
    SparseMatrix([c \in {<<d[2], d[1]>> : d \in DOMAIN s.data} |-> s.data[<<c[2], c[1]>>]],
                 s.ncols, s.nrows)

\* one arm of `match op` on integers
ApplyOp(op, a, b) ==
    IF op = "ADD" THEN a + b
    ELSE IF op = "SUB" THEN a - b
    ELSE IF op = "MUL" THEN a * b
    ELSE TruncDiv(a, b)

\* sparse_helper_self without its shape test: the entries of other are merged
\* whatever the shapes (C18 must not hold of it)
sparse_helper_self_unchecked(self, oth, op) ==
    IF op = "DIV" /\ \E c \in DOMAIN oth.data : c \in DOMAIN self.data /\ oth.data[c] = 0
    THEN Panic
    ELSE LET added == {c \in DOMAIN oth.data :
                            /\ c \notin DOMAIN self.data
                            /\ sparse_set(self, oth.data[c], c) # self}
         IN  Ok([self EXCEPT !.data =
                    [c \in (DOMAIN self.data) \cup added |->
                        IF c \notin DOMAIN self.data THEN oth.data[c]
                        ELSE IF c \in DOMAIN oth.data
                        THEN ApplyOp(op, self.data[c], oth.data[c])
                        ELSE self.data[c]]])

\* sparse_helper_self: for every entry of other, the stored value is updated in
\* place, or the entry is handed to self.set when self has none at that coordinate
sparse_helper_self(self, oth, op) ==
    IF shape(self) # shape(oth) THEN Ok(self)
    ELSE IF op = "DIV" /\ \E c \in DOMAIN oth.data : c \in DOMAIN self.data /\ oth.data[c] = 0
    THEN Panic
    ELSE LET added == {c \in DOMAIN oth.data :
                            /\ c \notin DOMAIN self.data
                            /\ sparse_set(self, oth.data[c], c) # self}
         IN  Ok([self EXCEPT !.data =
                    [c \in (DOMAIN self.data) \cup added |->
                        IF c \notin DOMAIN self.data THEN oth.data[c]
                        ELSE IF c \in DOMAIN oth.data
                        THEN ApplyOp(op, self.data[c], oth.data[c])
                        ELSE self.data[c]]])

\* SparseMatrix::add_self
sparse_add_self(self, oth) == sparse_helper_self(self, oth, "ADD")

\* SparseMatrix::sub_self
sparse_sub_self(self, oth) == sparse_helper_self(self, oth, "SUB")

\* SparseMatrix::mul_self
sparse_mul_self(self, oth) == sparse_helper_self(self, oth, "MUL")

\* SparseMatrix::div_self
sparse_div_self(self, oth) == sparse_helper_self(self, oth, "DIV")

\* sparse_helper_self_val: every stored value is updated in place
sparse_helper_self_val(self, val, op) ==
    IF op = "DIV" /\ val = 0 /\ DOMAIN self.data # {} THEN Panic
    ELSE Ok([self EXCEPT !.data = [c \in DOMAIN self.data |-> ApplyOp(op, self.data[c], val)]])

\* SparseMatrix::add_val_self
sparse_add_val_self(self, value) == sparse_helper_self_val(self, value, "ADD")

\* SparseMatrix::sub_val_self
sparse_sub_val_self(self, value) == sparse_helper_self_val(self, value, "SUB")

\* SparseMatrix::mul_val_self
sparse_mul_val_self(self, value) == sparse_helper_self_val(self, value, "MUL")

\* SparseMatrix::div_val_self
sparse_div_val_self(self, value) == sparse_helper_self_val(self, value, "DIV")

----------------------------------------------------------------------------
(* State before any call, and the values of the variables a call does not use *)

NoSparse == SparseMatrix(EmptyMap, 0, 0)

NoShape == <<0, 0>>

Init ==
    /\ phase = "init"
    /\ mat = NoMatrix
    /\ other = NoMatrix
    /\ out = NoCall
    /\ sp = NoSparse
    /\ spOther = NoSparse
    /\ spOut = NoCall
    /\ shapeA = NoShape
    /\ shapeB = NoShape
    /\ blockSize = NoCall
    /\ scalar = 0
    /\ getIdx = <<0, 0>>
    /\ slices = <<<<>>, <<>>, <<>>, <<0, 0>>>>
    /\ rnd = [start |-> 0, end |-> 0, num |-> 0, den |-> 1]
    /\ done = {}
    /\ writes = <<>>

denseVars == <<mat, other, out>>
sparseVars == <<sp, spOther, spOut>>
blockVars == <<shapeA, shapeB, blockSize>>
argVars == <<scalar, getIdx, slices, rnd>>
kernelVars == <<done, writes>>

----------------------------------------------------------------------------
(* Multiplication: dense Matrix::matmul and SparseMatrix::matmul_sparse *)

\* the dimensions of the dense operands: small ones, a prime above the first
\* candidate range (11) and a multiple of a candidate below itself (12)
DenseDims == {1, 2, 3, 11, 12}

\* the dimensions of the sparse operands
SparseDims == {1, 2}

\* the values a sparse operand stores
SparseVals == {-1, 1, 2}

\* the zero-free, in-bounds coordinate maps of a shape with at most MaxNnz entries
SparseMaps(nrows, ncols) ==
    UNION {[S -> SparseVals] :
            S \in {T \in SUBSET Cells(nrows, ncols) : Cardinality(T) <= MaxNnz}}

\* the dense operands of a shape: Matrix::new of the sample buffers with seeds
\* first..first+MaxSeed, and Matrix::init(1, shape)
DenseOperands(first, shp) ==
    {new(SampleData(first + s, shp[1] * shp[2]), shp).mat : s \in 0..MaxSeed}
        \cup {init(1, shp)}

\* Two dense operands are built with Matrix::new or Matrix::init
NewDenseOperands ==
    /\ phase = "init"
    /\ \E M \in DenseDims, N \in DenseDims, N2 \in DenseDims, P \in DenseDims :
            /\ mat' \in DenseOperands(0, <<M, N>>)
            /\ other' \in DenseOperands(MaxSeed + 1, <<N2, P>>)
    /\ phase' = "dense"
    /\ UNCHANGED <<out, sparseVars, blockVars, argVars, kernelVars>>

\* Two sparse operands are built with SparseMatrix::new
NewSparseOperands ==
    /\ phase = "init"
    /\ \E M \in SparseDims, N \in SparseDims, N2 \in SparseDims, P \in SparseDims :
        \E da \in SparseMaps(M, N), db \in SparseMaps(N2, P) :
            /\ sp' = sparse_new(da, <<M, N>>)
            /\ spOther' = sparse_new(db, <<N2, P>>)
    /\ phase' = "sparse"
    /\ UNCHANGED <<spOut, denseVars, blockVars, argVars, kernelVars>>

\* mat.matmul(&other)
DenseMatmul ==
    /\ phase = "dense"
    /\ out' = matmul(mat, other)
    /\ phase' = "matmul"
    /\ UNCHANGED <<mat, other, sparseVars, blockVars, argVars, kernelVars>>

\* sp.matmul_sparse(&spOther)
SparseMatmul ==
    /\ phase = "sparse"
    /\ spOut' = matmul_sparse(sp, spOther)
    /\ phase' = "matmul_sparse"
    /\ UNCHANGED <<sp, spOther, denseVars, blockVars, argVars, kernelVars>>

NextMM == NewDenseOperands \/ NewSparseOperands \/ DenseMatmul \/ SparseMatmul

SpecMM == Init /\ [][NextMM]_vars

----------------------------------------------------------------------------
(* Block-size selection on its own: get_block_size reads only the shapes *)

\* the dimensions around the thresholds 30 and 100 of the candidate ranges
BlockDims == {1, 2, 3, 7, 11, 12, 29, 30, 31, 60, 97, 99, 100, 101, 150}

\* the fields of a matrix that the selector reads
Header(shp) == [nrows |-> shp[1], ncols |-> shp[2]]

\* the shapes of two operands; get_block_size is public and does not require them
\* to be compatible
ChooseShapes ==
    /\ phase = "init"
    /\ \E M \in BlockDims, N \in BlockDims, N2 \in BlockDims, P \in BlockDims :
            /\ shapeA' = <<M, N>>
            /\ shapeB' = <<N2, P>>
    /\ phase' = "shapes"
    /\ UNCHANGED <<blockSize, denseVars, sparseVars, argVars, kernelVars>>

\* Self::get_block_size(self, other), the call unwound: Some(b), or a panic
SelectBlockSize ==
    /\ phase = "shapes"
    /\ blockSize' = get_block_size(Header(shapeA), Header(shapeB))
    /\ phase' = "block"
    /\ UNCHANGED <<shapeA, shapeB, denseVars, sparseVars, argVars, kernelVars>>

NextBlock == ChooseShapes \/ SelectBlockSize

SpecBlock == Init /\ [][NextBlock]_vars

----------------------------------------------------------------------------
(* Claims about multiplication, checked under SpecMM *)

\* the shapes of the four closed-form kernels
FastPathShapes ==
    {<<<<1, 2>>, <<2, 1>>>>, <<<<2, 2>>, <<2, 1>>>>, <<<<1, 2>>, <<2, 2>>>>,
     <<<<2, 2>>, <<2, 2>>>>}

\* the matrix product of two dense operands: cell (i, j) is the sum over k in 0..N
\* of a[i, k] * b[k, j]
ProductCell(a, b, i, j) == DotRange(a, b, i, j, 0, a.ncols)

IsProduct(res, a, b) ==
    /\ res.tag = "Ok"
    /\ shape(res.mat) = <<a.nrows, b.ncols>>
    /\ Len(res.mat.data) = a.nrows * b.ncols
    /\ \A i \in 0..(a.nrows - 1), j \in 0..(b.ncols - 1) :
            At(res.mat, i, j) = ProductCell(a, b, i, j)

\* C1: for dense A (M x N), B (N x P) of different shapes outside the four fast
\* paths, whenever matmul returns (the general blocked kernel has run) the result
\* is the matrix product, element-wise equal to naive(A, B).
C1_GeneralEqualsNaive ==
    (/\ phase = "matmul"
     /\ mat.ncols = other.nrows
     /\ shape(mat) # shape(other)
     /\ <<shape(mat), shape(other)>> \notin FastPathShapes
     /\ out.tag # "Panic")
    => (IsProduct(out, mat, other) /\ out = naive(mat, other))

\* C2: for square dense A, B of the same size N >= 3, whenever matmul returns (the
\* transposed blocked kernel has run) the result is the matrix product, element-wise
\* equal to naive(A, B).
C2_TransposedEqualsNaive ==
    (/\ phase = "matmul"
     /\ shape(mat) = shape(other)
     /\ mat.nrows = mat.ncols
     /\ mat.nrows >= 3
     /\ out.tag # "Panic")
    => (IsProduct(out, mat, other) /\ out = naive(mat, other))

\* C3: on each of the four fast-path shapes the closed-form kernel returns the true
\* product: cell (i, j) = A[i,0] * B[0,j] + A[i,1] * B[1,j].
C3_FastPathsAreProducts ==
    (phase = "matmul" /\ <<shape(mat), shape(other)>> \in FastPathShapes)
    => /\ out.tag = "Ok"
       /\ shape(out.mat) = <<mat.nrows, other.ncols>>
       /\ \A i \in 0..(mat.nrows - 1), j \in 0..(other.ncols - 1) :
            At(out.mat, i, j) = At(mat, i, 0) * At(other, 0, j) + At(mat, i, 1) * At(other, 1, j)

\* C4: for dense A (M x N), B (N x P) with M, N, P >= 1, matmul returns Ok with a
\* matrix of shape (M, P); it never aborts.
C4_MatmulReturnsOk ==
    (/\ phase = "matmul"
     /\ mat.ncols = other.nrows
     /\ mat.nrows >= 1 /\ mat.ncols >= 1 /\ other.ncols >= 1)
    => (out.tag = "Ok" /\ shape(out.mat) = <<mat.nrows, other.ncols>>)

\* C9: when A.ncols # B.nrows both dense matmul and matmul_sparse return
\* Err(MatrixMultiplicationDimensionMismatchError), and no product is computed.
C9_MismatchIsMultiplicationError ==
    /\ (phase = "matmul" /\ mat.ncols # other.nrows)
        => out = Err("MatrixMultiplicationDimensionMismatchError")
    /\ (phase = "matmul_sparse" /\ sp.ncols # spOther.nrows)
        => spOut = Err("MatrixMultiplicationDimensionMismatchError")

\* the matrix product of two sparse operands at cell (i, j), absent entries
\* counting as zero
RECURSIVE SparseProductCell(_, _, _, _, _)
SparseProductCell(a, b, i, j, k) ==
    IF k >= a.ncols THEN 0
    ELSE sparse_at(a, i, k) * sparse_at(b, k, j) + SparseProductCell(a, b, i, j, k + 1)

InBounds(s) == \A c \in DOMAIN s.data : c[1] < s.nrows /\ c[2] < s.ncols

NoStoredZero(s) == \A c \in DOMAIN s.data : s.data[c] # 0

\* C10: for sparse A (M x N), B (N x P) with in-bounds coordinates and no stored
\* zeros, matmul_sparse(A, B) is the matrix product: shape (M, P) and
\* at(i, j) = sum over k in 0..N of A.at(i, k) * B.at(k, j).
C10_SparseMatmulIsProduct ==
    (/\ phase = "matmul_sparse"
     /\ sp.ncols = spOther.nrows
     /\ InBounds(sp) /\ InBounds(spOther)
     /\ NoStoredZero(sp) /\ NoStoredZero(spOther))
    => /\ spOut.tag = "Ok"
       /\ shape(spOut.mat) = <<sp.nrows, spOther.ncols>>
       /\ \A i \in 0..(sp.nrows - 1), j \in 0..(spOther.ncols - 1) :
            sparse_at(spOut.mat, i, j) = SparseProductCell(sp, spOther, i, j, 0)

----------------------------------------------------------------------------
(* Claims about block-size selection, checked under SpecBlock *)

\* both dimensions of a shape are below a threshold
BothBelow(shp, t) == shp[1] < t /\ shp[2] < t

\* the documented candidate range of a pair of shapes
DocumentedRange(a, b) ==
    IF BothBelow(a, 30) \/ BothBelow(b, 30) THEN 2..10
    ELSE IF BothBelow(a, 100) \/ BothBelow(b, 100) THEN 10..30
    ELSE 30..50

\* c evenly divides A.ncols, A.nrows or B.ncols
DividesADimension(a, b, c) == \E d \in {a[2], a[1], b[2]} : d % c = 0

\* C8: whenever get_block_size(A, B) returns b, b lies in the documented range, b
\* divides A.ncols or A.nrows or B.ncols, and no larger value of the range divides
\* any of the three.
C8_BlockSizeIsLargestDivisor ==
    (phase = "block" /\ blockSize.tag = "Some")
    => /\ blockSize.val \in DocumentedRange(shapeA, shapeB)
       /\ DividesADimension(shapeA, shapeB, blockSize.val)
       /\ \A c \in DocumentedRange(shapeA, shapeB) :
            c > blockSize.val => ~DividesADimension(shapeA, shapeB, c)

\* a block size was returned from the middle range [10, 30] although a smaller
\* candidate of the range divides a dimension too
C8_Witness ==
    /\ phase = "block"
    /\ blockSize.tag = "Some"
    /\ DocumentedRange(shapeA, shapeB) = 10..30
    /\ \E c \in DocumentedRange(shapeA, shapeB) :
            c < blockSize.val /\ DividesADimension(shapeA, shapeB, c)

----------------------------------------------------------------------------
(* Determinant of dense matrices of up to MaxDetDim rows and columns *)

MaxDetDim == 4

MaxDetSeed == 5

\* the matrices of the documented determinant examples
DetExamples ==
    {from_slice(<<5>>, <<1, 1>>).mat,
     from_slice(<<1, 2, 3, 4>>, <<2, 2>>).mat,
     from_slice(<<1, 3, 5, 9, 1, 3, 1, 7, 4, 3, 9, 7, 5, 2, 0, 9>>, <<4, 4>>).mat}

\* the operands of a shape: sample buffers and Matrix::init(1, shape)
DetOperands(shp) ==
    {new(SampleData(s, shp[1] * shp[2]), shp).mat : s \in 0..MaxDetSeed}
        \cup {init(1, shp)}

\* a matrix is built, square or not
NewDetOperand ==
    /\ phase = "init"
    /\ \E r \in 1..MaxDetDim, c \in 1..MaxDetDim :
            mat' \in DetOperands(<<r, c>>) \cup DetExamples
    /\ phase' = "square"
    /\ UNCHANGED <<other, out, sparseVars, blockVars, argVars, kernelVars>>

\* mat.determinant()
Determinant ==
    /\ phase = "square"
    /\ out' = determinant(mat)
    /\ phase' = "determinant"
    /\ UNCHANGED <<mat, other, sparseVars, blockVars, argVars, kernelVars>>

NextDet == NewDetOperand \/ Determinant

SpecDet == Init /\ [][NextDet]_vars

\* the permutations of 1..n
PermutationsOf(n) ==
    {f \in [1..n -> 1..n] : \A i \in 1..n, j \in 1..n : i # j => f[i] # f[j]}

\* +1 for an even permutation, -1 for an odd one
Signature(f, n) ==
    IF Cardinality({p \in (1..n) \X (1..n) : p[1] < p[2] /\ f[p[1]] > f[p[2]]}) % 2 = 0
    THEN 1
    ELSE -1

\* the product of m[i, f(i)] over the rows i..n
RECURSIVE PermutationProduct(_, _, _)
PermutationProduct(m, f, i) ==
    IF i > m.nrows THEN 1
    ELSE At(m, i - 1, f[i] - 1) * PermutationProduct(m, f, i + 1)

\* the sum over a set of permutations of signature times product
RECURSIVE LeibnizSum(_, _)
LeibnizSum(m, perms) ==
    IF perms = {} THEN 0
    ELSE LET f == CHOOSE g \in perms : TRUE
         IN  Signature(f, m.nrows) * PermutationProduct(m, f, 1)
                + LeibnizSum(m, perms \ {f})

\* the mathematical determinant of a square matrix (Leibniz formula, which equals
\* the cofactor expansion along the first row)
MathDeterminant(m) == LeibnizSum(m, PermutationsOf(m.nrows))

\* C7: determinant returns None exactly when the matrix is not square; for square
\* matrices of size 1 to 4 it returns Some(d) with d the mathematical determinant;
\* [[5]] gives 5, [[1,2],[3,4]] gives -2 and the documented 4 x 4 matrix gives -376.
C7_DeterminantIsMathematical ==
    phase = "determinant"
    => /\ (out = None) <=> (mat.nrows # mat.ncols)
       /\ mat.nrows = mat.ncols => out = Some(MathDeterminant(mat))
       /\ mat = Matrix(<<5>>, 1, 1) => out = Some(5)
       /\ mat = Matrix(<<1, 2, 3, 4>>, 2, 2) => out = Some(-2)
       /\ mat = Matrix(<<1, 3, 5, 9, 1, 3, 1, 7, 4, 3, 9, 7, 5, 2, 0, 9>>, 4, 4)
            => out = Some(-376)

\* the determinant of a 4 x 4 matrix was computed by det_nxn and is not zero
C7_Witness ==
    /\ phase = "determinant"
    /\ mat.nrows = 4 /\ mat.ncols = 4
    /\ out.tag = "Some"
    /\ out.val # 0
    /\ out.val # det_nxn_unsigned(mat.data, 4)

----------------------------------------------------------------------------
(* A dense matrix under its factories and mutators. Buffers hold at most MaxLen
   elements and shapes at most MaxLen cells; elements stay in 0..MaxVal. *)

MaxLen == 4

MaxVal == 1

DenseValues == 0..MaxVal

DenseShapes == {shp \in (1..MaxLen) \X (1..MaxLen) : shp[1] * shp[2] <= MaxLen}

DenseBuffers == UNION {[1..n -> DenseValues] : n \in 0..MaxLen}

\* the indices handed to set and set_many, inside and outside the shapes
DenseCoords == (0..(MaxLen - 1)) \X (0..(MaxLen - 1))

\* the right operands of extend and of the in-place arithmetic
DenseOthers == {init(v, shp) : v \in DenseValues, shp \in DenseShapes} \cup {eye(2)}

\* the sparse sources of from_sparse
DenseSparseSources(shp) ==
    {sparse_new(d, shp) :
        d \in UNION {[S -> DenseValues \ {0}] :
                        S \in {T \in SUBSET Cells(shp[1], shp[2]) : Cardinality(T) <= MaxNnz}}}

WithinDenseBounds(m) ==
    /\ size(m) <= MaxLen
    /\ Len(m.data) <= MaxLen
    /\ \A k \in 1..Len(m.data) : m.data[k] \in DenseValues

\* a factory returned: the matrix becomes live, or the construction was refused
Built(result) ==
    /\ phase = "init"
    /\ mat' = IF result.tag = "Ok" THEN result.mat ELSE mat
    /\ phase' = IF result.tag = "Ok" THEN "live" ELSE "rejected"
    /\ out' = result
    /\ UNCHANGED <<other, sparseVars, blockVars, argVars, kernelVars>>

\* a mutator returned or panicked; a panic ends the run
Called(result) ==
    /\ phase = "live"
    /\ result.tag = "Ok" => WithinDenseBounds(result.mat)
    /\ mat' = IF result.tag = "Ok" THEN result.mat ELSE mat
    /\ phase' = IF result.tag = "Ok" THEN "live" ELSE "panicked"
    /\ out' = result
    /\ UNCHANGED <<other, sparseVars, blockVars, argVars, kernelVars>>

DenseNew == \E data \in DenseBuffers, shp \in DenseShapes : Built(new(data, shp))

DenseInit == \E v \in DenseValues, shp \in DenseShapes : Built(Ok(init(v, shp)))

DenseEye == \E sz \in 1..MaxLen : sz * sz <= MaxLen /\ Built(Ok(eye(sz)))

DenseZeros == \E shp \in DenseShapes : Built(Ok(zeros(shp)))

DenseOnes == \E shp \in DenseShapes : Built(Ok(ones(shp)))

DenseFromSlice == \E arr \in DenseBuffers, shp \in DenseShapes : Built(from_slice(arr, shp))

DenseFromSparse ==
    \E shp \in DenseShapes : \E sparse \in DenseSparseSources(shp) :
        Built(Ok(from_sparse(sparse)))

DenseReshape == \E shp \in DenseShapes : Called(reshape(mat, shp[1], shp[2]))

DenseTranspose == Called(transpose_self(mat))

DenseSet == \E v \in DenseValues, idx \in DenseCoords : Called(set(mat, v, idx))

DenseSetMany ==
    \E v \in DenseValues, i1 \in DenseCoords, i2 \in DenseCoords :
        Called(set_many(mat, <<i1, i2>>, v))

DenseExtend == \E oth \in DenseOthers, dim \in {"Row", "Col"} : Called(extend(mat, oth, dim))

DenseAddSelf == \E oth \in DenseOthers : Called(add_self(mat, oth))

DenseSubSelf == \E oth \in DenseOthers : Called(sub_self(mat, oth))

DenseMulSelf == \E oth \in DenseOthers : Called(mul_self(mat, oth))

DenseDivSelf == \E oth \in DenseOthers : Called(div_self(mat, oth))

DenseAddValSelf == \E v \in DenseValues : Called(add_val_self(mat, v))

DenseSubValSelf == \E v \in DenseValues : Called(sub_val_self(mat, v))

DenseMulValSelf == \E v \in DenseValues : Called(mul_val_self(mat, v))

DenseDivValSelf == \E v \in DenseValues : Called(div_val_self(mat, v))

NextDense ==
    \/ DenseNew \/ DenseInit \/ DenseEye \/ DenseZeros \/ DenseOnes
    \/ DenseFromSlice \/ DenseFromSparse
    \/ DenseReshape \/ DenseTranspose \/ DenseSet \/ DenseSetMany \/ DenseExtend
    \/ DenseAddSelf \/ DenseSubSelf \/ DenseMulSelf \/ DenseDivSelf
    \/ DenseAddValSelf \/ DenseSubValSelf \/ DenseMulValSelf \/ DenseDivValSelf

SpecDense == Init /\ [][NextDense]_vars

\* C5: after a factory and after every mutating operation (reshape, transpose, set,
\* set_many, extend by Row or Col, in-place arithmetic) the buffer of a dense matrix
\* holds exactly nrows * ncols elements.
C5_DataLenIsSize ==
    phase = "live" => Len(mat.data) = mat.nrows * mat.ncols

----------------------------------------------------------------------------
(* A sparse matrix under its factories and in-place mutators. The map holds at most
   MaxEntries entries, with values in -MaxSparseVal..MaxSparseVal. *)

MaxEntries == 3

MaxSparseVal == 2

\* the scalars handed to set, insert and the *_val_self operations
SparseScalars == -1..MaxSparseVal

\* the indices handed to set and insert, inside and outside the shapes
SparseCoords == (0..1) \X (0..2)

WithinSparseBounds(s) ==
    /\ Cardinality(DOMAIN s.data) <= MaxEntries
    /\ \A c \in DOMAIN s.data : s.data[c] \in (-MaxSparseVal)..MaxSparseVal

\* a sparse factory returned
SparseBuilt(result) ==
    /\ phase = "init"
    /\ result.tag = "Ok"
    /\ WithinSparseBounds(result.mat)
    /\ sp' = result.mat
    /\ phase' = "sparse_live"
    /\ spOut' = result
    /\ UNCHANGED <<spOther, denseVars, blockVars, argVars, kernelVars>>

\* a sparse mutator returned or panicked; a panic ends the run
SparseCalled(result) ==
    /\ phase = "sparse_live"
    /\ result.tag = "Ok" => WithinSparseBounds(result.mat)
    /\ sp' = IF result.tag = "Ok" THEN result.mat ELSE sp
    /\ phase' = IF result.tag = "Ok" THEN "sparse_live" ELSE "sparse_panicked"
    /\ spOut' = result
    /\ UNCHANGED <<spOther, denseVars, blockVars, argVars, kernelVars>>

\* the zero-free right operands of the shape of the live matrix
SparseOthers == SparseMaps(sp.nrows, sp.ncols)

SparseInit == \E r \in SparseDims, c \in SparseDims : SparseBuilt(Ok(sparse_init(r, c)))

SparseEye == \E sz \in SparseDims : SparseBuilt(Ok(sparse_eye(sz)))

SparseFromDense ==
    \E r \in SparseDims, c \in SparseDims : \E m \in DenseOperands(0, <<r, c>>) :
        SparseBuilt(from_dense(m))

SparseSet == \E v \in SparseScalars, idx \in SparseCoords : SparseCalled(Ok(sparse_set(sp, v, idx)))

SparseInsert ==
    \E v \in SparseScalars, idx \in SparseCoords :
        SparseCalled(Ok(sparse_insert(sp, idx[1], idx[2], v)))

SparseTranspose == SparseCalled(Ok(sparse_transpose(sp)))

SparseAddSelf ==
    \E d \in SparseOthers : SparseCalled(sparse_add_self(sp, sparse_new(d, shape(sp))))

SparseSubSelf ==
    \E d \in SparseOthers : SparseCalled(sparse_sub_self(sp, sparse_new(d, shape(sp))))

SparseMulSelf ==
    \E d \in SparseOthers : SparseCalled(sparse_mul_self(sp, sparse_new(d, shape(sp))))

SparseDivSelf ==
    \E d \in SparseOthers : SparseCalled(sparse_div_self(sp, sparse_new(d, shape(sp))))

SparseAddValSelf == \E v \in SparseScalars : SparseCalled(sparse_add_val_self(sp, v))

SparseSubValSelf == \E v \in SparseScalars : SparseCalled(sparse_sub_val_self(sp, v))

SparseMulValSelf == \E v \in SparseScalars : SparseCalled(sparse_mul_val_self(sp, v))

SparseDivValSelf == \E v \in SparseScalars : SparseCalled(sparse_div_val_self(sp, v))

NextSparse ==
    \/ SparseInit \/ SparseEye \/ SparseFromDense
    \/ SparseSet \/ SparseInsert \/ SparseTranspose
    \/ SparseAddSelf \/ SparseSubSelf \/ SparseMulSelf \/ SparseDivSelf
    \/ SparseAddValSelf \/ SparseSubValSelf \/ SparseMulValSelf \/ SparseDivValSelf

SpecSparse == Init /\ [][NextSparse]_vars

\* C6: a sparse matrix built by init, eye or from_dense holds no zero value after any
\* sequence of set/insert, transpose, add_self .. div_self (equal-shape zero-free
\* right operands) and add_val_self .. div_val_self.
C6_NoStoredZero ==
    phase = "sparse_live" => NoStoredZero(sp)

----------------------------------------------------------------------------
(* Further claims about sparse multiplication, checked under SpecMM *)

\* C11: for compatible sparse A, B without stored zeros, every entry that
\* matmul_sparse(A, B) stores is non-zero (also when the row of B selected by a
\* non-zero entry of A is empty or sums to zero).
C11_SparseMatmulStoresNoZero ==
    (/\ phase = "matmul_sparse"
     /\ sp.ncols = spOther.nrows
     /\ NoStoredZero(sp) /\ NoStoredZero(spOther))
    => (spOut.tag = "Ok" /\ NoStoredZero(spOut.mat))

----------------------------------------------------------------------------
(* Allocating sparse arithmetic (sparse/helper.rs sparse_helper, sparse_helper_val) *)

\* SparseMatrix::set stores the value: it is non-zero and the flat index is in range
SetStores(s, value, c) == value # 0 /\ at(c[1], c[2], s.ncols) < size(s)

\* the arms operating as their names say (C13 must not hold of them)
HelperArmByOp(op, a, b) == ApplyOp(op, a, b)

\* an arm that overwrites the stored value (C12 must not hold of it)
HelperArmOverwrite(op, a, b) == b

\* `match op` of sparse_helper: every arm is `*value += val`
HelperArm(op, a, b) ==
    IF op = "ADD" THEN a + b
    ELSE IF op = "SUB" THEN a + b
    ELSE IF op = "MUL" THEN a + b
    ELSE a + b

\* sparse_helper: the entries of self are copied with set; every entry of other is
\* combined with the copied value, or handed to set when there is none
sparse_helper(self, oth, op) ==
    IF shape(self) # shape(oth) THEN Err("MatrixDimensionMismatchError")
    ELSE LET copied == {c \in DOMAIN self.data : SetStores(self, self.data[c], c)}
             added == {c \in (DOMAIN oth.data) \ copied : SetStores(self, oth.data[c], c)}
         IN  Ok(sparse_new([c \in copied \cup added |->
                                IF c \notin copied THEN oth.data[c]
                                ELSE IF c \in DOMAIN oth.data
                                THEN HelperArm(op, self.data[c], oth.data[c])
                                ELSE self.data[c]],
                           shape(self)))

\* SparseMatrix::add
sparse_add(self, oth) == sparse_helper(self, oth, "ADD")

\* SparseMatrix::sub
sparse_sub(self, oth) == sparse_helper(self, oth, "SUB")

\* SparseMatrix::mul
sparse_mul(self, oth) == sparse_helper(self, oth, "MUL")

\* SparseMatrix::div
sparse_div(self, oth) == sparse_helper(self, oth, "DIV")

\* a broadcast that stores every combined value, zero or not (the corrected C15 must
\* not hold of it)
sparse_helper_val_keep(self, value, op) ==
    IF op = "DIV" /\ value = 0 /\ DOMAIN self.data # {} THEN Panic
    ELSE Ok(sparse_new([c \in DOMAIN self.data |-> ApplyOp(op, self.data[c], value)],
                       shape(self)))

\* sparse_helper_val: every combined value is handed to result_mat.set
sparse_helper_val(self, value, op) ==
    IF op = "DIV" /\ value = 0 /\ DOMAIN self.data # {} THEN Panic
    ELSE LET stored == {c \in DOMAIN self.data :
                            SetStores(self, ApplyOp(op, self.data[c], value), c)}
         IN  Ok(sparse_new([c \in stored |-> ApplyOp(op, self.data[c], value)],
                           shape(self)))

\* SparseMatrix::add_val
sparse_add_val(self, value) == sparse_helper_val(self, value, "ADD")

\* SparseMatrix::sub_val
sparse_sub_val(self, value) == sparse_helper_val(self, value, "SUB")

\* SparseMatrix::mul_val
sparse_mul_val(self, value) == sparse_helper_val(self, value, "MUL")

\* SparseMatrix::div_val
sparse_div_val(self, value) == sparse_helper_val(self, value, "DIV")

----------------------------------------------------------------------------
(* Sparse arithmetic on two operands: one call on the operands NewSparseOperands
   built. The allocating calls leave self alone and return a matrix; the in-place
   calls mutate self. *)

\* an allocating call returned (or panicked)
Returned(name, result) ==
    /\ phase = "sparse"
    /\ spOut' = result
    /\ phase' = name
    /\ UNCHANGED <<sp, spOther, getIdx, slices, rnd, denseVars, blockVars, kernelVars>>

\* an in-place call returned (or panicked, leaving self as it was)
Mutated(name, result) ==
    /\ phase = "sparse"
    /\ sp' = IF result.tag = "Ok" THEN result.mat ELSE sp
    /\ phase' = IF result.tag = "Ok" THEN name ELSE "panicked"
    /\ UNCHANGED <<spOther, spOut, getIdx, slices, rnd, denseVars, blockVars, kernelVars>>

AddCall == Returned("add", sparse_add(sp, spOther)) /\ UNCHANGED scalar

SubCall == Returned("sub", sparse_sub(sp, spOther)) /\ UNCHANGED scalar

MulCall == Returned("mul", sparse_mul(sp, spOther)) /\ UNCHANGED scalar

DivCall == Returned("div", sparse_div(sp, spOther)) /\ UNCHANGED scalar

AddValCall ==
    \E v \in SparseScalars : Returned("add_val", sparse_add_val(sp, v)) /\ scalar' = v

SubValCall ==
    \E v \in SparseScalars : Returned("sub_val", sparse_sub_val(sp, v)) /\ scalar' = v

MulValCall ==
    \E v \in SparseScalars : Returned("mul_val", sparse_mul_val(sp, v)) /\ scalar' = v

DivValCall ==
    \E v \in SparseScalars : Returned("div_val", sparse_div_val(sp, v)) /\ scalar' = v

AddSelfCall == Mutated("add_self", sparse_add_self(sp, spOther)) /\ UNCHANGED scalar

SubSelfCall == Mutated("sub_self", sparse_sub_self(sp, spOther)) /\ UNCHANGED scalar

MulSelfCall == Mutated("mul_self", sparse_mul_self(sp, spOther)) /\ UNCHANGED scalar

DivSelfCall == Mutated("div_self", sparse_div_self(sp, spOther)) /\ UNCHANGED scalar

AddValSelfCall ==
    \E v \in SparseScalars : Mutated("add_val_self", sparse_add_val_self(sp, v)) /\ scalar' = v

SubValSelfCall ==
    \E v \in SparseScalars : Mutated("sub_val_self", sparse_sub_val_self(sp, v)) /\ scalar' = v

MulValSelfCall ==
    \E v \in SparseScalars : Mutated("mul_val_self", sparse_mul_val_self(sp, v)) /\ scalar' = v

DivValSelfCall ==
    \E v \in SparseScalars : Mutated("div_val_self", sparse_div_val_self(sp, v)) /\ scalar' = v

NextArith ==
    \/ NewSparseOperands
    \/ AddCall \/ SubCall \/ MulCall \/ DivCall
    \/ AddValCall \/ SubValCall \/ MulValCall \/ DivValCall
    \/ AddSelfCall \/ SubSelfCall \/ MulSelfCall \/ DivSelfCall
    \/ AddValSelfCall \/ SubValSelfCall \/ MulValSelfCall \/ DivValSelfCall

SpecArith == Init /\ [][NextArith]_vars

\* C12: for sparse A, B of equal shape with in-bounds coordinates and no stored
\* zeros, add(A, B) returns Ok(R) with R.shape() = A.shape() and
\* R.at(i, j) = A.at(i, j) + B.at(i, j) at every coordinate of the shape; when the
\* shapes differ it returns Err(MatrixDimensionMismatchError).
C12_SparseAddIsSum ==
    (/\ phase = "add"
     /\ InBounds(sp) /\ InBounds(spOther)
     /\ NoStoredZero(sp) /\ NoStoredZero(spOther))
    => IF shape(sp) # shape(spOther)
       THEN spOut = Err("MatrixDimensionMismatchError")
       ELSE /\ spOut.tag = "Ok"
            /\ shape(spOut.mat) = shape(sp)
            /\ \A c \in Cells(sp.nrows, sp.ncols) :
                    sparse_at(spOut.mat, c[1], c[2])
                        = sparse_at(sp, c[1], c[2]) + sparse_at(spOther, c[1], c[2])

\* add returned the sum of two matrices that both store a value at one coordinate
C12_Witness ==
    /\ phase = "add"
    /\ spOut.tag = "Ok"
    /\ \E c \in DOMAIN sp.data :
            c \in DOMAIN spOther.data /\ sparse_at(spOut.mat, c[1], c[2]) # spOther.data[c]

\* C13: in the allocating sparse variant all four operators are addition: for sparse
\* A, B of equal shape, sub(A, B), mul(A, B) and div(A, B) each return exactly the
\* matrix add(A, B) returns.
C13_AllocatingOpsAreAddition ==
    (phase \in {"sub", "mul", "div"} /\ shape(sp) = shape(spOther))
    => /\ spOut.tag = "Ok"
       /\ spOut = sparse_add(sp, spOther)
       /\ \A c \in Cells(sp.nrows, sp.ncols) :
            (c \in DOMAIN sp.data /\ c \in DOMAIN spOther.data)
                => sparse_at(spOut.mat, c[1], c[2]) = sp.data[c] + spOther.data[c]

\* sub, mul or div returned for two matrices that store, at one coordinate, values
\* whose difference, product and quotient all differ from their sum
C13_Witness ==
    /\ phase \in {"sub", "mul", "div"}
    /\ spOut.tag = "Ok"
    /\ \E c \in DOMAIN sp.data :
            /\ c \in DOMAIN spOther.data
            /\ sp.data[c] - spOther.data[c] # sp.data[c] + spOther.data[c]
            /\ sp.data[c] * spOther.data[c] # sp.data[c] + spOther.data[c]
            /\ TruncDiv(sp.data[c], spOther.data[c]) # sp.data[c] + spOther.data[c]

\* the operator an in-place call is named after
OpOfSelfCall(name) ==
    IF name = "add_self" THEN "ADD"
    ELSE IF name = "sub_self" THEN "SUB"
    ELSE IF name = "mul_self" THEN "MUL"
    ELSE "DIV"

\* C14: the in-place sparse variant implements all four operators: for A, B of equal
\* shape, after A.add_self(B), A.sub_self(B), A.mul_self(B), A.div_self(B) every
\* coordinate at which B stores v has A.at(i, j) = a + v, a - v, a * v, a / v, where a
\* is the value A.at(i, j) had before the call (0 when A had no entry there).
C14_InPlaceOpsAreCorrect ==
    [][(/\ phase' \in {"add_self", "sub_self", "mul_self", "div_self"}
        /\ shape(sp) = shape(spOther))
       => \A c \in DOMAIN spOther.data :
            sparse_at(sp', c[1], c[2])
                = ApplyOp(OpOfSelfCall(phase'), sparse_at(sp, c[1], c[2]), spOther.data[c])]_vars

\* the operator a scalar broadcast call is named after
OpOfValCall(name) ==
    IF name \in {"add_val", "add_val_self"} THEN "ADD"
    ELSE IF name \in {"sub_val", "sub_val_self"} THEN "SUB"
    ELSE IF name \in {"mul_val", "mul_val_self"} THEN "MUL"
    ELSE "DIV"

AllocatingValCalls == {"add_val", "sub_val", "mul_val", "div_val"}

InPlaceValCalls == {"add_val_self", "sub_val_self", "mul_val_self", "div_val_self"}

\* C15 as stated: scalar broadcast does not prune zero results: after add_val,
\* sub_val, mul_val, div_val and after add_val_self, sub_val_self, mul_val_self,
\* div_val_self the resulting matrix stores exactly the coordinates of the input, each
\* with the combined value, a zero included.
C15_BroadcastKeepsCoordinates ==
    [][/\ (phase' \in AllocatingValCalls /\ spOut'.tag = "Ok")
            => /\ DOMAIN spOut'.mat.data = DOMAIN sp.data
               /\ \A c \in DOMAIN sp.data :
                    spOut'.mat.data[c] = ApplyOp(OpOfValCall(phase'), sp.data[c], scalar')
       /\ phase' \in InPlaceValCalls
            => /\ DOMAIN sp'.data = DOMAIN sp.data
               /\ \A c \in DOMAIN sp.data :
                    sp'.data[c] = ApplyOp(OpOfValCall(phase'), sp.data[c], scalar')]_vars

\* C15, corrected: only the in-place broadcasts keep every coordinate (a zero result
\* stays stored); the allocating broadcasts hand every combined value to set, so their
\* result stores exactly the coordinates of the (in-bounds) input whose combined
\* value is non-zero.
C15_BroadcastPrunesWhenAllocating ==
    [][/\ (phase' \in AllocatingValCalls /\ spOut'.tag = "Ok")
            => /\ shape(spOut'.mat) = shape(sp)
               /\ DOMAIN spOut'.mat.data =
                    {c \in DOMAIN sp.data :
                        ApplyOp(OpOfValCall(phase'), sp.data[c], scalar') # 0}
               /\ \A c \in DOMAIN spOut'.mat.data :
                    spOut'.mat.data[c] = ApplyOp(OpOfValCall(phase'), sp.data[c], scalar')
       /\ phase' \in InPlaceValCalls
            => /\ shape(sp') = shape(sp)
               /\ DOMAIN sp'.data = DOMAIN sp.data
               /\ \A c \in DOMAIN sp.data :
                    sp'.data[c] = ApplyOp(OpOfValCall(phase'), sp.data[c], scalar')]_vars

\* an allocating broadcast returned a matrix that dropped a coordinate of its input
\* and kept another
C15_Witness ==
    /\ phase \in AllocatingValCalls
    /\ spOut.tag = "Ok"
    /\ DOMAIN spOut.mat.data # {}
    /\ DOMAIN spOut.mat.data # DOMAIN sp.data

InPlaceCalls == {"add_self", "sub_self", "mul_self", "div_self"}

\* C18: if A.shape() # B.shape(), each of A.add_self(B), A.sub_self(B), A.mul_self(B),
\* A.div_self(B) skips the mutation: A's coordinate map, nrows and ncols are
\* unchanged after the call, and B is unchanged.
C18_SparseMismatchSkips ==
    [][(phase' \in InPlaceCalls /\ shape(sp) # shape(spOther))
       => /\ sp'.data = sp.data
          /\ sp'.nrows = sp.nrows /\ sp'.ncols = sp.ncols
          /\ spOther' = spOther]_vars

\* an in-place operation returned on operands of different shapes, the right one
\* storing a value at a coordinate the left one would have accepted
C18_Witness ==
    /\ phase \in InPlaceCalls
    /\ shape(sp) # shape(spOther)
    /\ \E c \in DOMAIN spOther.data : sparse_set(sp, spOther.data[c], c) # sp

----------------------------------------------------------------------------
(* Conversion sparse -> dense -> sparse: Matrix::from_sparse, then
   SparseMatrix::from_dense *)

\* the matrices from_sparse can return: the map is iterated in an arbitrary order, so
\* when several entries have the same flat index any of them is written last
FromSparseOutcomes(sparse) ==
    LET flat(c) == at(c[1], c[2], sparse.ncols)
        written == {c \in DOMAIN sparse.data : flat(c) < size(sparse)}
        flats == {flat(c) : c \in written}
        lastWriters == {w \in [flats -> written] : \A f \in flats : flat(w[f]) = f}
    IN  {Matrix([k \in 1..size(sparse) |->
                    IF (k - 1) \in flats THEN sparse.data[w[k - 1]] ELSE 0],
                sparse.nrows, sparse.ncols) : w \in lastWriters}

\* the coordinates a caller can put into the map handed to SparseMatrix::new, inside
\* and outside the shapes
ConvertCoords == (0..2) \X (0..2)

\* the zero-free coordinate maps with at most MaxNnz entries
ConvertMaps ==
    UNION {[S -> SparseVals] : S \in {T \in SUBSET ConvertCoords : Cardinality(T) <= MaxNnz}}

\* SparseMatrix::new(map, shape): the map is taken as it is
NewSparseSource ==
    /\ phase = "init"
    /\ \E r \in SparseDims, c \in SparseDims, d \in ConvertMaps : sp' = sparse_new(d, <<r, c>>)
    /\ phase' = "source"
    /\ UNCHANGED <<spOther, spOut, denseVars, blockVars, argVars, kernelVars>>

\* Matrix::from_sparse(sp)
FromSparseCall ==
    /\ phase = "source"
    /\ mat' \in FromSparseOutcomes(sp)
    /\ phase' = "from_sparse"
    /\ UNCHANGED <<other, out, sparseVars, blockVars, argVars, kernelVars>>

\* SparseMatrix::from_dense(mat)
FromDenseCall ==
    /\ phase = "from_sparse"
    /\ spOut' = from_dense(mat)
    /\ phase' = "from_dense"
    /\ UNCHANGED <<sp, spOther, denseVars, blockVars, argVars, kernelVars>>

NextConvert == NewSparseSource \/ FromSparseCall \/ FromDenseCall

SpecConvert == Init /\ [][NextConvert]_vars

\* C16: for any sparse S built with SparseMatrix::new from a zero-free coordinate map
\* and a shape, SparseMatrix::from_dense(Matrix::from_sparse(S)) = S: the same shape
\* and the same coordinate map.
C16_SparseRoundTrip ==
    (phase = "from_dense" /\ NoStoredZero(sp))
    => /\ spOut.tag = "Ok"
       /\ shape(spOut.mat) = shape(sp)
       /\ spOut.mat.data = sp.data

----------------------------------------------------------------------------
(* Transposing twice: Matrix::transpose and SparseMatrix::transpose called two
   times on a matrix whose clone the caller keeps *)

TransposeDims == {1, 2, 3}

\* a dense matrix is built with Matrix::new or Matrix::init and cloned
NewDenseTransposeOperand ==
    /\ phase = "init"
    /\ \E r \in TransposeDims, c \in TransposeDims :
            \E m \in DenseOperands(0, <<r, c>>) : mat' = m /\ other' = m
    /\ phase' = "dense_t0"
    /\ UNCHANGED <<out, sparseVars, blockVars, argVars, kernelVars>>

\* a sparse matrix is built with SparseMatrix::new and cloned
NewSparseTransposeOperand ==
    /\ phase = "init"
    /\ \E r \in SparseDims, c \in SparseDims, d \in ConvertMaps :
            sp' = sparse_new(d, <<r, c>>) /\ spOther' = sparse_new(d, <<r, c>>)
    /\ phase' = "sparse_t0"
    /\ UNCHANGED <<spOut, denseVars, blockVars, argVars, kernelVars>>

\* mat.transpose(), first and second call
DenseTransposeCall ==
    /\ phase \in {"dense_t0", "dense_t1"}
    /\ LET result == transpose_self(mat)
       IN  IF result.tag = "Panic"
           THEN mat' = mat /\ phase' = "panicked"
           ELSE /\ mat' = result.mat
                /\ phase' = IF phase = "dense_t0" THEN "dense_t1" ELSE "dense_t2"
    /\ UNCHANGED <<other, out, sparseVars, blockVars, argVars, kernelVars>>

\* sp.transpose(), first and second call
SparseTransposeCall ==
    /\ phase \in {"sparse_t0", "sparse_t1"}
    /\ sp' = sparse_transpose(sp)
    /\ phase' = IF phase = "sparse_t0" THEN "sparse_t1" ELSE "sparse_t2"
    /\ UNCHANGED <<spOther, spOut, denseVars, blockVars, argVars, kernelVars>>

NextTranspose ==
    \/ NewDenseTransposeOperand
    \/ NewSparseTransposeOperand
    \/ DenseTransposeCall
    \/ SparseTransposeCall

SpecTranspose == Init /\ [][NextTranspose]_vars

\* C17: transposing in place twice restores the matrix: a dense matrix of any shape
\* (square or not) has its shape and its buffer back, and a sparse matrix has its
\* shape and its coordinate map back.
C17_TransposeTwiceRestores ==
    /\ (phase = "dense_t2" => mat = other)
    /\ (phase = "sparse_t2" => sp = spOther)

----------------------------------------------------------------------------
(* In-place dense arithmetic on two operands: a.add_self(&b), a.sub_self(&b),
   a.mul_self(&b), a.div_self(&b) on the operands of NewDenseOperands *)

\* an in-place dense call returned or panicked
DenseMutated(name, result) ==
    /\ phase = "dense"
    /\ mat' = IF result.tag = "Ok" THEN result.mat ELSE mat
    /\ phase' = IF result.tag = "Ok" THEN name ELSE "panicked"
    /\ out' = result
    /\ UNCHANGED <<other, sparseVars, blockVars, argVars, kernelVars>>

DenseAddSelfCall == DenseMutated("dense_add_self", add_self(mat, other))

DenseSubSelfCall == DenseMutated("dense_sub_self", sub_self(mat, other))

DenseMulSelfCall == DenseMutated("dense_mul_self", mul_self(mat, other))

DenseDivSelfCall == DenseMutated("dense_div_self", div_self(mat, other))

NextDenseSelf ==
    \/ NewDenseOperands
    \/ DenseAddSelfCall
    \/ DenseSubSelfCall
    \/ DenseMulSelfCall
    \/ DenseDivSelfCall

SpecDenseSelf == Init /\ [][NextDenseSelf]_vars

DenseSelfCalls == {"dense_add_self", "dense_sub_self", "dense_mul_self", "dense_div_self"}

\* C19: when A.shape() # B.shape(), each of A.add_self(B), A.sub_self(B),
\* A.mul_self(B), A.div_self(B) skips the mutation: A's buffer and A's shape are
\* what they were before the call, also when the buffers differ in length.
C19_DenseMismatchSkips ==
    [][(phase' \in DenseSelfCalls /\ shape(mat) # shape(other)) => mat' = mat]_vars

----------------------------------------------------------------------------
(* The bounds-checked accessors Matrix::get and SparseMatrix::get *)

\* SparseMatrix::get: None for a flat index >= size(); otherwise the stored value, or
\* zero for a coordinate the map does not hold
sparse_get(s, i, j) ==
    IF at(i, j, s.ncols) >= size(s) THEN None
    ELSE IF <<i, j>> \in DOMAIN s.data THEN Some(s.data[<<i, j>>])
    ELSE Some(0)

\* the row and column indices handed to get, inside and outside the shapes
GetIndices == 0..3

\* a dense matrix is built with Matrix::new or Matrix::init
NewDenseGetOperand ==
    /\ phase = "init"
    /\ \E r \in TransposeDims, c \in TransposeDims : mat' \in DenseOperands(0, <<r, c>>)
    /\ phase' = "dense_src"
    /\ UNCHANGED <<other, out, sparseVars, blockVars, argVars, kernelVars>>

\* a sparse matrix is built with SparseMatrix::new, every coordinate inside the shape
NewSparseGetOperand ==
    /\ phase = "init"
    /\ \E r \in SparseDims, c \in SparseDims :
            \E d \in SparseMaps(r, c) : sp' = sparse_new(d, <<r, c>>)
    /\ phase' = "sparse_src"
    /\ UNCHANGED <<spOther, spOut, denseVars, blockVars, argVars, kernelVars>>

\* mat.get(i, j)
DenseGetCall ==
    /\ phase = "dense_src"
    /\ \E i \in GetIndices, j \in GetIndices :
            /\ getIdx' = <<i, j>>
            /\ out' = get(mat, i, j)
    /\ phase' = "dense_get"
    /\ UNCHANGED <<mat, other, sparseVars, blockVars, scalar, slices, rnd, kernelVars>>

\* sp.get(i, j)
SparseGetCall ==
    /\ phase = "sparse_src"
    /\ \E i \in GetIndices, j \in GetIndices :
            /\ getIdx' = <<i, j>>
            /\ out' = sparse_get(sp, i, j)
    /\ phase' = "sparse_get"
    /\ UNCHANGED <<mat, other, sparseVars, blockVars, scalar, slices, rnd, kernelVars>>

NextGet ==
    \/ NewDenseGetOperand
    \/ NewSparseGetOperand
    \/ DenseGetCall
    \/ SparseGetCall

SpecGet == Init /\ [][NextGet]_vars

\* the coordinate handed to get lies outside the shape of m
OutOfBounds(m) == getIdx[1] >= m.nrows \/ getIdx[2] >= m.ncols

\* C20: get(i, j) returns None whenever i >= nrows or j >= ncols, and Some(value at
\* (i, j)) otherwise, for Matrix::get and for SparseMatrix::get (where an in-bounds
\* coordinate the map does not hold gives Some(0)).
C20_GetNoneIffOutOfBounds ==
    /\ phase = "dense_get"
       => out = IF OutOfBounds(mat) THEN None
                ELSE Some(mat.data[getIdx[1] * mat.ncols + getIdx[2] + 1])
    /\ phase = "sparse_get"
       => out = IF OutOfBounds(sp) THEN None
                ELSE Some(sparse_at(sp, getIdx[1], getIdx[2]))

----------------------------------------------------------------------------
(* SparseMatrix::set and SparseMatrix::insert called once on a matrix built with
   SparseMatrix::new; the value and the coordinate of the call are kept in scalar
   and getIdx *)

\* sp.set(v, idx)
SetCall ==
    /\ phase = "source"
    /\ \E v \in SparseScalars, idx \in ConvertCoords :
            /\ scalar' = v
            /\ getIdx' = idx
            /\ sp' = sparse_set(sp, v, idx)
    /\ phase' = "set"
    /\ UNCHANGED <<spOther, spOut, slices, rnd, denseVars, blockVars, kernelVars>>

\* sp.insert(i, j, v)
InsertCall ==
    /\ phase = "source"
    /\ \E v \in SparseScalars, idx \in ConvertCoords :
            /\ scalar' = v
            /\ getIdx' = idx
            /\ sp' = sparse_insert(sp, idx[1], idx[2], v)
    /\ phase' = "insert"
    /\ UNCHANGED <<spOther, spOut, slices, rnd, denseVars, blockVars, kernelVars>>

NextSet == NewSparseSource \/ SetCall \/ InsertCall

SpecSet == Init /\ [][NextSet]_vars

\* C21: SparseMatrix::set(0, idx) and insert(i, j, 0) change nothing, whatever the
\* coordinate: the coordinate map and the shape stay as they were, also when the
\* coordinate already holds a non-zero value.
C21_SetZeroIsNoOp ==
    [][(phase' \in {"set", "insert"} /\ scalar' = 0) => sp' = sp]_vars

\* a zero was set at a coordinate that holds a non-zero value
C21_Witness ==
    /\ phase \in {"set", "insert"}
    /\ scalar = 0
    /\ getIdx \in DOMAIN sp.data
    /\ sp.data[getIdx] # 0

----------------------------------------------------------------------------
(* Matrix::new on shapes over the whole range of usize. usize is modelled with
   WordBits bits; shape.0 * shape.1 is a usize multiplication, which wraps in a
   build without overflow checks and panics in a build with them *)

WordBits == 4

UsizeModulus == 2 ^ WordBits

UsizeValues == 0..(UsizeModulus - 1)

\* Matrix::new in a build without overflow checks: the product wraps
new_wrapping(data, shp) ==
    IF (shp[1] * shp[2]) % UsizeModulus # Len(data)
    THEN Err("MatrixCreationError")
    ELSE Ok(Matrix(data, shp[1], shp[2]))

\* Matrix::new in a build with overflow checks: the product panics past the word
new_checked(data, shp) ==
    IF shp[1] * shp[2] >= UsizeModulus THEN Panic ELSE new(data, shp)

\* Matrix::new(data, shape); the arguments of the call are kept in other
NewCall ==
    /\ phase = "init"
    /\ \E data \in DenseBuffers, r \in UsizeValues, c \in UsizeValues :
            /\ other' = Matrix(data, r, c)
            /\ out' \in {new_wrapping(data, <<r, c>>), new_checked(data, <<r, c>>)}
            /\ mat' = IF out'.tag = "Ok" THEN out'.mat ELSE mat
    /\ phase' = "new"
    /\ UNCHANGED <<sparseVars, blockVars, argVars, kernelVars>>

\* .unwrap() and at(i, j) on the returned matrix
NewUnwrapAt ==
    /\ phase = "new"
    /\ out.tag = "Ok"
    /\ \E i \in 0..(mat.nrows - 1), j \in 0..(mat.ncols - 1) :
            /\ getIdx' = <<i, j>>
            /\ out' = IF at(i, j, mat.ncols) >= Len(mat.data) THEN Panic
                      ELSE Some(At(mat, i, j))
    /\ phase' = "new_at"
    /\ UNCHANGED <<mat, other, sparseVars, blockVars, scalar, slices, rnd, kernelVars>>

NextNew == NewCall \/ NewUnwrapAt

SpecNew == Init /\ [][NextNew]_vars

\* C22: Matrix::new(data, (r, c)) returns Err(MatrixCreationError) exactly when
\* r * c # data.len(), without panicking, and otherwise Ok with a matrix of shape
\* (r, c) whose buffer is data in row-major order: at(i, j) = data[i * c + j].
C22_NewChecksTheSize ==
    /\ phase = "new"
       => out = IF other.nrows * other.ncols # Len(other.data)
                THEN Err("MatrixCreationError")
                ELSE Ok(other)
    /\ phase = "new_at"
       => out = Some(other.data[getIdx[1] * other.ncols + getIdx[2] + 1])

----------------------------------------------------------------------------
(* A run of the general blocked kernel optimized_blocked_matmul, one (kk, jj, ii)
   block iteration per step. During the run out holds the local buffer `data` as a
   matrix of shape (M, P), done the block iterations executed and writes the write
   events <<block iteration, i, j>> of every element of the buffer *)

KernelDims == {1, 2, 3}

SmallKernelDims == {1, 2}

KernelBlockSizes == {1, 2, 3}

\* the buffer after the block iteration blk = (kk, jj, ii)
GeneralBlockData(data, self, oth, blk, block_size) ==
    LET M == self.nrows
        P == oth.ncols
    IN  [idx \in 1..Len(data) |->
            LET i == (idx - 1) \div P
                j == (idx - 1) % P
            IN  IF GeneralBlockWrites(blk, i, j, M, P, block_size)
                THEN GeneralBlockValue(self, oth, blk, i, j, block_size)
                ELSE data[idx]]

\* the kernel is entered on compatible operands: data = vec![T::zero(); M * P]
EnterGeneral(dims) ==
    /\ phase = "init"
    /\ \E M \in dims, N \in dims, P \in dims, b \in KernelBlockSizes :
            /\ mat' \in DenseOperands(0, <<M, N>>)
            /\ other' \in DenseOperands(MaxSeed + 1, <<N, P>>)
            /\ blockSize' = Some(b)
            /\ out' = Ok(Matrix(Zeros(M * P), M, P))
            /\ writes' = [idx \in 1..(M * P) |-> {}]
    /\ done' = {}
    /\ phase' = "general"
    /\ UNCHANGED <<sparseVars, shapeA, shapeB, argVars>>

EnterGeneralKernel == EnterGeneral(KernelDims)

EnterSmallGeneralKernel == EnterGeneral(SmallKernelDims)

\* the n-th block iteration of the loop nest runs
RunGeneralBlock(n) ==
    LET b == blockSize.val
        blk == GeneralBlocks(mat, other, b)[n]
        P == other.ncols
    IN  /\ out' = Ok([out.mat EXCEPT
                        !.data = GeneralBlockData(out.mat.data, mat, other, blk, b)])
        /\ writes' = [idx \in DOMAIN writes |->
                        LET i == (idx - 1) \div P
                            j == (idx - 1) % P
                        IN  IF GeneralBlockWrites(blk, i, j, mat.nrows, P, b)
                            THEN writes[idx] \cup {<<n, i, j>>}
                            ELSE writes[idx]]
        /\ done' = done \cup {n}
        /\ UNCHANGED <<phase, mat, other, sparseVars, blockVars, argVars>>

\* the loop nest as written: the block iterations run in the order kk, jj, ii
GeneralBlockInOrder ==
    /\ phase = "general"
    /\ Cardinality(done) < Len(GeneralBlocks(mat, other, blockSize.val))
    /\ RunGeneralBlock(Cardinality(done) + 1)

\* the block iterations taken as independent work items: any one not yet run runs
GeneralBlockAnyOrder ==
    /\ phase = "general"
    /\ \E n \in (1..Len(GeneralBlocks(mat, other, blockSize.val))) \ done : RunGeneralBlock(n)

\* every block iteration has run: Self::new(data, (M, P)).unwrap()
GeneralReturn ==
    /\ phase = "general"
    /\ Cardinality(done) = Len(GeneralBlocks(mat, other, blockSize.val))
    /\ out' = new(out.mat.data, <<mat.nrows, other.ncols>>)
    /\ phase' = "general_done"
    /\ UNCHANGED <<mat, other, sparseVars, blockVars, argVars, kernelVars>>

NextGeneral == EnterGeneralKernel \/ GeneralBlockInOrder \/ GeneralReturn

SpecGeneral == Init /\ [][NextGeneral]_vars

NextGeneralAnyOrder == EnterSmallGeneralKernel \/ GeneralBlockAnyOrder \/ GeneralReturn

SpecGeneralAnyOrder == Init /\ [][NextGeneralAnyOrder]_vars

\* the first k of the last k-block: b * floor((N - 1) / b)
LastBlockStart(N, b) == b * ((N - 1) \div b)

\* C23: each kk pass of optimized_blocked_matmul overwrites: for A (M x N), B (N x P)
\* and block size b the returned cell (i, j) is the sum of A[i,k] * B[k,j] over the
\* last k-block only, k in [b * floor((N-1)/b), N), which is the full dot product
\* when N <= b.
C23_LastBlockOnly ==
    phase = "general_done"
    => /\ out.tag = "Ok"
       /\ shape(out.mat) = <<mat.nrows, other.ncols>>
       /\ out = optimized_blocked_matmul(mat, other, blockSize.val)
       /\ \A i \in 0..(mat.nrows - 1), j \in 0..(other.ncols - 1) :
            /\ At(out.mat, i, j)
                  = DotRange(mat, other, i, j,
                             LastBlockStart(mat.ncols, blockSize.val), mat.ncols)
            /\ mat.ncols <= blockSize.val
               => At(out.mat, i, j) = DotRange(mat, other, i, j, 0, mat.ncols)

\* the kernel returned on N > b with a cell that differs from the full dot product
C23_Witness ==
    /\ phase = "general_done"
    /\ mat.ncols > blockSize.val
    /\ \E i \in 0..(mat.nrows - 1), j \in 0..(other.ncols - 1) :
            At(out.mat, i, j) # DotRange(mat, other, i, j, 0, mat.ncols)

----------------------------------------------------------------------------
(* A run of the transposed blocked kernel blocked_matmul, as the dispatcher
   matmul_helper invokes it: on N x N operands that are not 2 x 2, with the block
   size get_block_size selected. One (kk, jj) iteration per step *)

TransposedDims == 1..12

\* matmul_helper reaches blocked_matmul(other, blck_size)
EnterTransposedKernel ==
    /\ phase = "init"
    /\ \E N \in TransposedDims :
         \E a \in DenseOperands(0, <<N, N>>), b \in DenseOperands(MaxSeed + 1, <<N, N>>) :
            /\ shape(a) # <<2, 2>>
            /\ get_block_size(a, b).tag = "Some"
            /\ mat' = a
            /\ other' = b
            /\ blockSize' = get_block_size(a, b)
            /\ out' = Ok(Matrix(Zeros(N * N), N, N))
            /\ writes' = [idx \in 1..(N * N) |-> {}]
    /\ done' = {}
    /\ phase' = "transposed"
    /\ UNCHANGED <<sparseVars, shapeA, shapeB, argVars>>

\* the (kk, jj) iterations of the run, in loop order
TransposedRunBlocks ==
    TransposedBlocks(mat.nrows, blockSize.val * (mat.nrows \div blockSize.val))

\* the next (kk, jj) iteration runs: every (i, j) of it is written, or an index
\* past a buffer panics
TransposedBlockStep ==
    /\ phase = "transposed"
    /\ Cardinality(done) < Len(TransposedRunBlocks)
    /\ LET n == Cardinality(done) + 1
           blk == TransposedRunBlocks[n]
           b == blockSize.val
           t_other == transpose_copy(other)
           cells == TransposedCells(mat.nrows, blk[2], b)
       IN  IF TransposedBlockPanics(mat, t_other, blk[1], blk[2], b)
           THEN /\ phase' = "panicked"
                /\ out' = Panic
                /\ UNCHANGED kernelVars
           ELSE /\ phase' = phase
                /\ out' = Ok([out.mat EXCEPT
                                !.data = TransposedBlock(out.mat.data, mat, t_other,
                                                         blk[1], blk[2], b)])
                /\ writes' = [idx \in DOMAIN writes |->
                                writes[idx] \cup
                                    {<<n, cells[c][1], cells[c][2]>> :
                                        c \in {d \in 1..Len(cells) :
                                                at(cells[d][1], cells[d][2], mat.nrows) + 1
                                                    = idx}}]
                /\ done' = done \cup {n}
    /\ UNCHANGED <<mat, other, sparseVars, blockVars, argVars>>

\* every iteration has run: Self::new(data, (n, n)).unwrap()
TransposedReturn ==
    /\ phase = "transposed"
    /\ Cardinality(done) = Len(TransposedRunBlocks)
    /\ out' = new(out.mat.data, <<mat.nrows, mat.nrows>>)
    /\ phase' = "transposed_done"
    /\ UNCHANGED <<mat, other, sparseVars, blockVars, argVars, kernelVars>>

NextTransposed == EnterTransposedKernel \/ TransposedBlockStep \/ TransposedReturn

SpecTransposed == Init /\ [][NextTransposed]_vars

\* C24: in blocked_matmul, invoked by the dispatcher on N x N operands with the
\* selected block size, every output cell (i, j), 0 <= i, j < N, is written exactly
\* once during the run: none twice, none left at its initial zero unwritten.
C24_EachCellWrittenOnce ==
    /\ phase \in {"transposed", "transposed_done"}
       => \A idx \in DOMAIN writes : Cardinality(writes[idx]) <= 1
    /\ phase = "transposed_done"
       => \A idx \in DOMAIN writes : Cardinality(writes[idx]) = 1

----------------------------------------------------------------------------
(* matmul_sparse on the operands of NewSparseOperands and on the two 3 x 3
   operands of the test matmul_sparse *)

TestSparseA ==
    sparse_new((<<0, 1>> :> 2) @@ (<<1, 0>> :> 4) @@ (<<1, 1>> :> 6) @@ (<<2, 2>> :> 8),
               <<3, 3>>)

TestSparseB ==
    sparse_new((<<0, 0>> :> 2) @@ (<<1, 0>> :> 4) @@ (<<1, 1>> :> 8) @@ (<<2, 1>> :> 6),
               <<3, 3>>)

\* the operands of the test are built with SparseMatrix::new
NewSparseTestOperands ==
    /\ phase = "init"
    /\ sp' = TestSparseA
    /\ spOther' = TestSparseB
    /\ phase' = "sparse"
    /\ UNCHANGED <<spOut, denseVars, blockVars, argVars, kernelVars>>

NextSparseMM == NewSparseOperands \/ NewSparseTestOperands \/ SparseMatmul

SpecSparseMM == Init /\ [][NextSparseMM]_vars

\* the sum of row j of B over its first P columns
RECURSIVE RowTotal(_, _, _)
RowTotal(B, j, P) == IF P = 0 THEN 0 ELSE sparse_at(B, j, P - 1) + RowTotal(B, j, P - 1)

C28_SparseMatmulInBounds ==
    (/\ phase = "matmul_sparse"
     /\ sp.ncols = spOther.nrows
     /\ InBounds(sp) /\ InBounds(spOther))
    => /\ spOut.tag = "Ok"
       /\ shape(spOut.mat) = <<sp.nrows, spOther.ncols>>
       /\ \A c \in DOMAIN spOut.mat.data : c[1] < sp.nrows /\ c[2] < spOther.ncols

----------------------------------------------------------------------------
(* One transpose of a dense matrix, in place or as a copy *)

\* mat.transpose_copy()
TransposeCopyCall ==
    /\ phase = "dense_t0"
    /\ out' = Ok(transpose_copy(mat))
    /\ phase' = "dense_copy"
    /\ UNCHANGED <<mat, other, sparseVars, blockVars, argVars, kernelVars>>

NextTransposeOnce == NextTranspose \/ TransposeCopyCall

SpecTransposeOnce == Init /\ [][NextTransposeOnce]_vars

\* t is the transpose of m: the shape is swapped and t at (j, i) is m at (i, j)
IsTransposeOf(t, m) ==
    /\ shape(t) = <<m.ncols, m.nrows>>
    /\ Len(t.data) = Len(m.data)
    /\ \A i \in 0..(m.nrows - 1), j \in 0..(m.ncols - 1) :
            t.data[j * m.nrows + i + 1] = m.data[i * m.ncols + j + 1]

\* C27: for every dense matrix M of shape R x C, square or not, after M.transpose()
\* the shape is (C, R) and the element at (j, i) is the element M had at (i, j), for
\* all i < R, j < C; likewise for the matrix transpose_copy returns.
C27_TransposeIsTranspose ==
    /\ phase = "dense_t1" => IsTransposeOf(mat, other)
    /\ phase = "dense_copy" => out.tag = "Ok" /\ IsTransposeOf(out.mat, mat)

----------------------------------------------------------------------------
(* SparseMatrix::from_slices *)

\* rows.iter().zip(cols.iter().zip(vals.iter())): as many triples as the shortest slice
SliceZipLen(rows, cols, vals) == Min(Len(rows), Min(Len(cols), Len(vals)))

\* SparseMatrix::from_slices: the length test joins its two comparisons with &&;
\* the zipped triples are collected into the map, a later triple replacing an
\* earlier one of the same coordinate
from_slices(rows, cols, vals, shp) ==
    IF Len(rows) # Len(cols) /\ Len(cols) # Len(vals)
    THEN Err("MatrixDimensionMismatchError")
    ELSE LET n == SliceZipLen(rows, cols, vals)
             coords == {<<rows[k], cols[k]>> : k \in 1..n}
             LastAt(c) == CHOOSE k \in 1..n :
                            /\ <<rows[k], cols[k]>> = c
                            /\ \A l \in 1..n : <<rows[l], cols[l]>> = c => l <= k
         IN  Ok(sparse_new([c \in coords |-> vals[LastAt(c)]], shp))

MaxSlice == 2

SliceIndices == UNION {[1..n -> 0..1] : n \in 0..MaxSlice}

SliceValues == UNION {[1..n -> SparseVals] : n \in 0..MaxSlice}

\* SparseMatrix::from_slices(&rows, &cols, &vals, shape)
FromSlicesCall ==
    /\ phase = "init"
    /\ \E rows \in SliceIndices, cols \in SliceIndices, vals \in SliceValues,
          r \in SparseDims, c \in SparseDims :
            /\ slices' = <<rows, cols, vals, <<r, c>>>>
            /\ spOut' = from_slices(rows, cols, vals, <<r, c>>)
            /\ sp' = IF spOut'.tag = "Ok" THEN spOut'.mat ELSE sp
    /\ phase' = "from_slices"
    /\ UNCHANGED <<spOther, denseVars, blockVars, scalar, getIdx, rnd, kernelVars>>

\* sp.at(i, j) on the matrix from_slices returned
FromSlicesAt ==
    /\ phase = "from_slices"
    /\ spOut.tag = "Ok"
    /\ \E i \in 0..1, j \in 0..1 :
            /\ getIdx' = <<i, j>>
            /\ out' = Some(sparse_at(sp, i, j))
    /\ phase' = "from_slices_at"
    /\ UNCHANGED <<mat, other, sparseVars, blockVars, scalar, slices, rnd, kernelVars>>

NextSlices == FromSlicesCall \/ FromSlicesAt

SpecSlices == Init /\ [][NextSlices]_vars

\* C29: from_slices(rows, cols, vals, shape) returns Err(MatrixDimensionMismatchError)
\* whenever the three slices do not all have the same length, and otherwise Ok with
\* a matrix of that shape holding (rows[n], cols[n]) -> vals[n] for every index n and
\* nothing else.
C29_FromSlicesChecksLengths ==
    phase = "from_slices"
    => LET rows == slices[1]
           cols == slices[2]
           vals == slices[3]
       IN  IF Len(rows) # Len(cols) \/ Len(cols) # Len(vals)
           THEN spOut = Err("MatrixDimensionMismatchError")
           ELSE /\ spOut.tag = "Ok"
                /\ shape(spOut.mat) = slices[4]
                /\ DOMAIN spOut.mat.data = {<<rows[n], cols[n]>> : n \in 1..Len(rows)}
                /\ \A n \in 1..Len(rows) :
                        (\A l \in 1..Len(rows) :
                            <<rows[l], cols[l]>> = <<rows[n], cols[n]>> => l = n)
                        => spOut.mat.data[<<rows[n], cols[n]>>] = vals[n]

----------------------------------------------------------------------------
(* SparseMatrix::randomize_range, one iteration of its while loop per step. The
   requested sparsity is the rational num / den and sparsity() is compared with it
   exactly; the random draws of the value, the row and the column are the choices
   of the step *)

\* the entries of a matrix: self.data.par_iter().count()
EntryCount(s) == Cardinality(DOMAIN s.data)

\* a loop test that also runs at equality: matrix.sparsity() >= sparsity
SparsityAtLeast(s, num, den) == (size(s) - EntryCount(s)) * den >= num * size(s)

\* the loop test matrix.sparsity() > sparsity, with sparsity() = 1 - count / size
SparsityAbove(s, num, den) == (size(s) - EntryCount(s)) * den > num * size(s)

\* the requested sparsities, as <<num, den>>
Sparsities == {<<0, 1>>, <<1, 4>>, <<1, 3>>, <<1, 2>>, <<3, 4>>, <<1, 1>>}

\* the ranges start..=end that hold a non-zero value
RandomRanges ==
    {rg \in SparseScalars \X SparseScalars : rg[1] <= rg[2] /\ (rg[1] # 0 \/ rg[2] # 0)}

RandomDims == {1, 2}

\* randomize_range is entered: matrix = Self::init(shape.0, shape.1)
RandomizeEnter ==
    /\ phase = "init"
    /\ \E rg \in RandomRanges, s \in Sparsities, r \in RandomDims, c \in RandomDims :
            /\ rnd' = [start |-> rg[1], end |-> rg[2], num |-> s[1], den |-> s[2]]
            /\ sp' = sparse_init(r, c)
    /\ phase' = "randomize"
    /\ UNCHANGED <<spOther, spOut, denseVars, blockVars, scalar, getIdx, slices, kernelVars>>

\* one iteration of the loop: a value, a row and a column are drawn; a free
\* coordinate is set (set refuses a zero), a taken one is left alone
RandomizeIteration ==
    /\ phase = "randomize"
    /\ SparsityAbove(sp, rnd.num, rnd.den)
    /\ \E value \in rnd.start..rnd.end,
          row \in 0..(sp.nrows - 1), col \in 0..(sp.ncols - 1) :
            sp' = IF <<row, col>> \in DOMAIN sp.data THEN sp
                  ELSE sparse_set(sp, value, <<row, col>>)
    /\ UNCHANGED <<phase, spOther, spOut, denseVars, blockVars, argVars, kernelVars>>

\* the loop test fails: the matrix is returned
RandomizeReturn ==
    /\ phase = "randomize"
    /\ ~SparsityAbove(sp, rnd.num, rnd.den)
    /\ spOut' = Ok(sp)
    /\ phase' = "randomized"
    /\ UNCHANGED <<sp, spOther, denseVars, blockVars, argVars, kernelVars>>

NextRandomize == RandomizeEnter \/ RandomizeIteration \/ RandomizeReturn

\* the call keeps running, and the draws are fair: an iteration that changes the
\* matrix is not avoided forever
SpecRandomize ==
    /\ Init
    /\ [][NextRandomize]_vars
    /\ WF_vars(RandomizeIteration)
    /\ WF_vars(RandomizeReturn)

\* k is the least entry count with 1 - k / size <= num / den
LeastCount(k, sz, num, den) ==
    /\ (sz - k) * den <= num * sz
    /\ \A l \in 0..(k - 1) : (sz - l) * den > num * sz

====
